---- MODULE Spec2Model ----
(***************************************************************************)
(* A model of the process/terminal/signal layer of Emacs, src/sysdep.c:    *)
(* the EINTR-retrying I/O wrappers, the terminal-mode and foreground       *)
(* process-group management, and the signal delivery core.                 *)
(*                                                                         *)
(* The parts share no state, so each has its own specification (SpecIO,    *)
(* SpecTty, SpecPgrp, SpecSig) over the one set of variables; a part that  *)
(* a specification does not exercise stays in its initial state.           *)
(***************************************************************************)
EXTENDS Integers, Sequences, FiniteSets, TLC

VARIABLES
    \* ---- retry-wrapped I/O (one wrapper call in progress at a time) ----
    io_fn,          \* the wrapper being executed, or "idle"
    io_pc,          \* "idle", "loop" (about to make an underlying call),
                    \* "returned" (normal return), "quit" (non-local exit)
    io_nbyte,       \* the caller's NBYTE still to be transferred
    io_arg,         \* the caller's original NBYTE
    io_written,     \* emacs_full_write's bytes_written
    io_buf,         \* emacs_full_write's BUF, as an offset into the
                    \* caller's buffer
    io_wrote,       \* history: the pieces of the caller's buffer the
                    \* successful writes took, in order
    io_result,      \* the value returned to the caller
    io_errno,       \* errno as the caller sees it on return
    io_req,         \* the length passed to the latest underlying call
    io_hist,        \* history: the non-EINTR outcomes of the underlying calls
    io_eintr,       \* history: how many underlying calls failed with EINTR
    io_quit_checks, \* history: how many times maybe_quit was invoked
    io_sig_runs,    \* history: how many times process_pending_signals ran
    quit_flag,      \* Vquit_flag: the user has requested a quit
    pending_signals,\* pending_signals: deferred signal work is waiting
    \* ---- the process ----
    noninteractive, \* Emacs runs in batch mode
    \* ---- terminal modes and the foreground process group ----
    ttys,           \* tty_list: per device, the tty_display_info fields
    termios,        \* per device, the attributes the kernel holds
    fg_initted,     \* init_foreground_group has run
    inherited_pgroup, \* 0, or the process group Emacs started in
    emacs_pgrp,     \* getpgrp (): the process group of Emacs
    tty_fg,         \* the foreground process group of the controlling tty
    pre_init,       \* history: per device, the attributes the terminal had
                    \* right before the latest init_sys_modes that set modes
    seq,            \* history: per device, what the latest calls did
    last,           \* history: the system calls of the latest call
    narrowed,       \* history: a narrow took effect and no widen came since
    narrow_open,    \* history: a narrow was called and no widen came since
    unmatched,      \* history: a narrow or widen call came out of turn
    \* ---- signals ----
    sig_inited,     \* init_signals has returned
    platform,       \* the host: IEEE_FLOATING_POINT, init_sigsegv's result
    disp,           \* per signal, the disposition the kernel holds
    frames,         \* per thread, the stack of signal handlers in progress
    sigmask,        \* per thread, the set of blocked signals
    main_pending,   \* signals sent to the main thread, not yet delivered
    proc,           \* "running", or "terminating" once
                    \* terminate_due_to_signal has begun
    sub_pc,         \* the main thread's position in sys_subshell
    saved_handlers, \* sys_subshell's saved_handlers
    arrivals,       \* how many signals the environment has raised
    inherited,      \* history: the dispositions before init_signals
    installed,      \* history: the dispositions when init_signals returned
    abandoned,      \* history: a non-local exit left sys_subshell between
                    \* its save and its restore
    body_ran_on,    \* history: the threads that ran handle_fatal_signal
    replaced,       \* history: signals whose disposition
                    \* deliver_thread_signal replaced
    returns,        \* history: the handler invocations that returned
    forwards,       \* history: the pthread_kill calls made
    jumps,          \* history: the non-local exits out of handlers
    segv,           \* history: the latest handle_sigsegv decision
    \* ---- tcsetpgrp_without_stopping, step by step ----
    tc_pc,          \* the statement tcsetpgrp_without_stopping is about to
                    \* execute, or "idle" / "returned"
    tc_args,        \* its arguments: the terminal and the process group
    thread_mask,    \* the signal mask of the calling thread
    oldset,         \* its local variable oldset
    interrupt_input_blocked, \* the nesting depth of block_input
    tc_entry,       \* history: the mask and the depth on entry
    tc_at_call,     \* history: the mask and the depth when tcsetpgrp ran
    \* ---- waiting for a child (one call in progress at a time) ----
    ch_fn,          \* the caller of get_child_status, or "idle"
    ch_pc,          \* "idle", "loop" (about to call waitpid), "returned",
                    \* "quit" and "error" (non-local exits), "child" (the
                    \* forked child, which never returns)
    ch_child,       \* get_child_status's CHILD
    ch_status,      \* its STATUS is a non-null pointer
    ch_options,     \* its OPTIONS
    ch_interruptible, \* its INTERRUPTIBLE
    ch_result,      \* the pid_t get_child_status returned
    ch_wait_ok,     \* the bool wait_for_termination returned
    ch_errno,       \* errno as the caller sees it on return
    input_available_clear_time, \* the pointer of that name and its target
    ch_calls,       \* history: the waitpid calls made, with their outcomes
    ch_quit_checks, \* history: how many times maybe_quit was invoked
    ch_clear_entry, \* history: input_available_clear_time on entry
    \* ---- discarding terminal input ----
    typeahead,      \* per device, input is queued in the kernel, unread
    discards,       \* history: per device, what the latest
                    \* discard_tty_input did
    \* ---- functions without side effects, applied to drawn arguments ----
    pure_fn,        \* the function that was applied, or "none"
    pure_args,      \* its arguments
    pure_result,    \* what it returned
    \* ---- the backtrace of a thread that took a fatal signal ----
    thread_backtrace_buffer,    \* the static buffer: per slot, the thread
                                \* and frame written there, or NoPointer
    thread_backtrace_npointers, \* the static count
    bt_pc,          \* per non-main thread, its position in
                    \* deliver_thread_signal
    bt_depth,       \* per non-main thread, the depth of its stack
    bt_slot,        \* per non-main thread, the slots backtrace has filled
    bt_killed,      \* the threads whose pthread_kill has been made
    bt_printed,     \* what emacs_backtrace printed on the main thread
    \* ---- SIGIO requests ----
    interrupts_deferred,  \* the global flag
    sio_mask,       \* per thread, the signals it blocks
    fd_flags,       \* per descriptor, its file status flags
    old_fcntl_flags,\* per descriptor, the flags init_sigio saved
    sio_last,       \* history: the latest call and its caller
    \* ---- init_sys_modes and reset_sys_modes, call by call ----
    ord_fn,         \* the function entered last, or "none"
    ord_step,       \* the position in it: the index of its next call, 0
                    \* when it is not running
    ord_log,        \* history: the calls it has made, each with the process
                    \* group and the attributes it found
    ord_done,       \* whether it ran to its end
    out_pending     \* whether output is queued in the terminal driver

ioVars == <<io_fn, io_pc, io_nbyte, io_arg, io_written, io_buf, io_wrote,
            io_result, io_errno,
            io_req, io_hist, io_eintr, io_quit_checks, io_sig_runs,
            quit_flag, pending_signals>>

ttyVars == <<ttys, termios, fg_initted, inherited_pgroup, emacs_pgrp, tty_fg,
             pre_init, seq, last, narrowed, narrow_open, unmatched>>

sigVars == <<sig_inited, platform, disp, frames, sigmask, main_pending, proc,
             sub_pc, saved_handlers, arrivals, inherited, installed,
             abandoned, body_ran_on, replaced, returns, forwards, jumps,
             segv>>

tcVars == <<tc_pc, tc_args, thread_mask, oldset, interrupt_input_blocked,
            tc_entry, tc_at_call>>

chVars == <<ch_fn, ch_pc, ch_child, ch_status, ch_options, ch_interruptible,
            ch_result, ch_wait_ok, ch_errno, input_available_clear_time,
            ch_calls,
            ch_quit_checks, ch_clear_entry>>

dcVars == <<typeahead, discards>>

pureVars == <<pure_fn, pure_args, pure_result>>

btVars == <<thread_backtrace_buffer, thread_backtrace_npointers, bt_pc,
            bt_depth, bt_slot, bt_killed, bt_printed>>

sioVars == <<interrupts_deferred, sio_mask, fd_flags, old_fcntl_flags,
             sio_last>>

ordVars == <<ord_fn, ord_step, ord_log, ord_done, out_pending>>

vars == <<ioVars, noninteractive, ttyVars, sigVars, tcVars, chVars, dcVars,
          pureVars, btVars, sioVars, ordVars>>

\* Bounds of the model.
\* The capacity of thread_backtrace_buffer (500 in the source).
BACKTRACE_LIMIT_MAX == 3
MaxNbyte == 3
\* MAX_RW_COUNT scaled down (the real value is about INT_MAX).
MaxRwCount == 2
\* A cap on the underlying calls of one wrapper call, EINTR failures included.
MaxCalls == 4

\* A cap on the signals the environment raises.
MaxArrivals == 2

\* A cap on the waitpid calls of one wait, EINTR failures included.
MaxWaits == 3

Min(a, b) == IF a < b THEN a ELSE b

(***************************************************************************)
(* Signals: the state before init_signals                                  *)
(***************************************************************************)

\* The main thread and another thread.
main_thread_id == "main"
Threads == {main_thread_id, "t1"}

\* The threads other than the main thread that may fail at the same time.
SubsidiaryThreads == {"t1", "t2"}

\* The descriptors init_sigio is applied to.
SioFds == {0, 1}

Sigs == {"SIGHUP", "SIGINT", "SIGQUIT", "SIGTERM", "SIGIO", "SIGPIPE",
         "SIGILL", "SIGFPE", "SIGSEGV", "SIGALRM", "SIGTRAP", "SIGABRT",
         "SIGBUS", "SIGSYS", "SIGUSR1", "SIGUSR2", "SIGPROF", "SIGVTALRM",
         "SIGXCPU", "SIGXFSZ", "SIGCHLD", "SIGWINCH", "SIGDANGER"}

\* A struct sigaction: its handler and its sa_mask.
SigAction(handler, mask) == [handler |-> handler, mask |-> mask]
SIG_DFL == SigAction("SIG_DFL", {})
SIG_IGN == SigAction("SIG_IGN", {})

NoSegv == [set |-> FALSE, gc |-> FALSE, thread |-> "none",
           overflow |-> FALSE, outcome |-> "none"]

\* The hosts considered: whether IEEE_FLOATING_POINT holds, whether
\* init_sigsegv succeeds, whether SIGDANGER is defined and whether
\* PROFILER_CPU_SUPPORT is.
GnuLinuxHost ==
    [ieee |-> TRUE, sigsegv |-> TRUE, sigdanger |-> FALSE, profiler |-> TRUE]
OtherHost ==
    [ieee |-> FALSE, sigsegv |-> FALSE, sigdanger |-> TRUE,
     profiler |-> FALSE]
Platforms == {GnuLinuxHost, OtherHost}

\* The signal part at process start, with the signals of IGNORED inherited
\* as SIG_IGN and all others as SIG_DFL, on host PLAT.
SigStart(ignored, plat) ==
    /\ sig_inited = FALSE
    /\ platform = plat
    /\ disp = [s \in Sigs |-> IF s \in ignored THEN SIG_IGN ELSE SIG_DFL]
    /\ frames = [th \in Threads |-> << >>]
    /\ sigmask = [th \in Threads |-> {}]
    /\ main_pending = {}
    /\ proc = "running"
    /\ sub_pc = "idle"
    /\ saved_handlers = << >>
    /\ arrivals = 0
    /\ inherited = << >>
    /\ installed = << >>
    /\ abandoned = FALSE
    /\ body_ran_on = {}
    /\ replaced = {}
    /\ returns = {}
    /\ forwards = {}
    /\ jumps = {}
    /\ segv = NoSegv

SigQuiet == SigStart({}, GnuLinuxHost)

(***************************************************************************)
(* The state before a call of tcsetpgrp_without_stopping, and before a     *)
(* wait for a child                                                        *)
(***************************************************************************)

NoTcArgs == [t |-> 0, pgid |-> 0]
NoMask == [mask |-> {}, depth |-> -1]

\* The calling thread has MASK blocked and is DEPTH levels inside
\* block_input.
TcStart(mask, depth) ==
    /\ tc_pc = "idle"
    /\ tc_args = NoTcArgs
    /\ thread_mask = mask
    /\ oldset = {}
    /\ interrupt_input_blocked = depth
    /\ tc_entry = NoMask
    /\ tc_at_call = NoMask

TcQuiet == TcStart({}, 0)

\* input_available_clear_time: a pointer, null or aimed at a timespec.
ClearTime(null, time) == [null |-> null, time |-> time]

ChStart(clear) ==
    /\ ch_fn = "idle" /\ ch_pc = "idle"
    /\ ch_child = 0
    /\ ch_status = FALSE
    /\ ch_options = {}
    /\ ch_interruptible = FALSE
    /\ ch_result = 0
    /\ ch_wait_ok = FALSE
    /\ ch_errno = "none"
    /\ input_available_clear_time = clear
    /\ ch_calls = << >>
    /\ ch_quit_checks = 0
    /\ ch_clear_entry = clear

ChQuiet == ChStart(ClearTime(TRUE, 0))

(***************************************************************************)
(* Retry-wrapped I/O                                                       *)
(***************************************************************************)

ReadFns == {"emacs_read", "emacs_read_quit"}
WriteFns == {"emacs_write", "emacs_write_sig", "emacs_write_quit"}
OpenFns == {"emacs_open", "emacs_open_noquit"}
IoFns == ReadFns \cup WriteFns \cup OpenFns
\* emacs_close, and the wrappers that make one call and return its result.
CloseFns == {"emacs_close"}
PlainFns == {"emacs_pipe", "sys_fstat", "emacs_rename"}

\* The outcome of an underlying system call: its return value and errno.
Ok(n) == [ret |-> n, errno |-> "none"]
Fail(e) == [ret |-> -1, errno |-> e]
IoErrnos == {"EINTR", "EIO"}

\* What read/write (LEN bytes asked) and open can answer.
RwOutcomes(len) == {Ok(n) : n \in 0..len} \cup {Fail(e) : e \in IoErrnos}
OpenOutcomes == {Ok(n) : n \in 0..MaxNbyte} \cup {Fail(e) : e \in IoErrnos}

\* What close can answer, and what pipe2, fstat and rename can: pipe2 is
\* not interruptible, fstat and rename are on some hosts.
CloseOutcomes == {Ok(0)} \cup {Fail(e) : e \in {"EINTR", "EINPROGRESS", "EIO"}}
PlainOutcomes(fn) ==
    {Ok(0)} \cup {Fail(e) : e \in (IF fn = "emacs_pipe" THEN {"EMFILE"}
                                   ELSE {"EINTR", "EIO"})}

\* emacs_read passes false, emacs_read_quit true, as INTERRUPTIBLE.
ReadInterruptible(fn) == fn = "emacs_read_quit"

\* emacs_write passes 0, emacs_write_sig -1, emacs_write_quit 1.
WriteInterruptible_Mutant(fn) == 1
WriteInterruptible(fn) ==
    CASE fn = "emacs_write" -> 0
      [] fn = "emacs_write_sig" -> -1
      [] fn = "emacs_write_quit" -> 1

\* maybe_quit: leaves by a non-local exit when a quit is requested.
MaybeQuitExits == quit_flag

\* The loop conditions "result < 0 && errno == EINTR" of the wrappers.
IntrReadRetries(out) == out.ret < 0 /\ out.errno = "EINTR"

OpenRetries_Mutant(out) == FALSE
OpenRetries(out) == out.ret < 0 /\ out.errno = "EINTR"

\* emacs_full_write: "if (errno != EINTR) break;" after a failed write.
FullWriteBreaks_Mutant(out) == TRUE
FullWriteBreaks(out) == out.errno # "EINTR"

\* The count emacs_full_write asks of one write, and emacs_intr_read of one
\* read.
WriteCount_Mutant(nbyte) == nbyte
WriteCount(nbyte) == Min(nbyte, MaxRwCount)
ReadCount_Mutant(nbyte) == Min(nbyte, MaxRwCount)
ReadCount(nbyte) == nbyte

IoIdle ==
    /\ io_fn = "idle" /\ io_pc = "idle"
    /\ io_nbyte = 0 /\ io_arg = 0 /\ io_written = 0
    /\ io_buf = 0 /\ io_wrote = <<>>
    /\ io_result = 0 /\ io_errno = "none" /\ io_req = 0
    /\ io_hist = <<>> /\ io_eintr = 0
    /\ io_quit_checks = 0 /\ io_sig_runs = 0

IoStart ==
    /\ IoIdle
    /\ quit_flag = FALSE
    /\ pending_signals = FALSE

\* The I/O wrappers touch no terminal state.
IoFrame ==
    UNCHANGED <<noninteractive, ttyVars, sigVars, tcVars, chVars, dcVars, btVars,
                sioVars,
                pureVars,
                ordVars>>

\* The caller enters one of the wrappers.
IoCall(fn, nbyte) ==
    /\ io_pc = "idle" /\ ch_pc = "idle"
    /\ io_fn' = fn
    /\ io_pc' = "loop"
    /\ io_nbyte' = nbyte
    /\ io_arg' = nbyte
    /\ UNCHANGED <<io_written, io_buf, io_wrote,
                   io_result, io_errno, io_req, io_hist, io_eintr,
                   io_quit_checks, io_sig_runs, quit_flag, pending_signals>>
    /\ IoFrame

\* History of one underlying call.
Note(out) ==
    IF out.ret < 0 /\ out.errno = "EINTR"
    THEN /\ io_eintr' = io_eintr + 1
         /\ io_hist' = io_hist
    ELSE /\ io_eintr' = io_eintr
         /\ io_hist' = Append(io_hist, out)

IoReturns(r, e) ==
    /\ io_pc' = "returned"
    /\ io_result' = r
    /\ io_errno' = e

\* maybe_quit's non-local exit: the quit is processed (Vquit_flag is reset).
IoQuits ==
    /\ io_pc' = "quit"
    /\ quit_flag' = FALSE
    /\ io_quit_checks' = io_quit_checks + 1

\* One iteration of emacs_intr_read's do-while loop.
emacs_intr_read(out) ==
    /\ io_pc = "loop" /\ io_fn \in ReadFns
    /\ Len(io_hist) + io_eintr < MaxCalls
    /\ IF ReadInterruptible(io_fn) /\ MaybeQuitExits
       THEN /\ IoQuits
            /\ UNCHANGED <<io_fn, io_nbyte, io_arg, io_written,
                           io_buf, io_wrote,
                           io_result,
                           io_errno, io_req, io_hist, io_eintr, io_sig_runs,
                           pending_signals>>
       ELSE /\ out \in RwOutcomes(ReadCount(io_nbyte))
            /\ io_req' = ReadCount(io_nbyte)
            /\ io_quit_checks' =
                 io_quit_checks + (IF ReadInterruptible(io_fn) THEN 1 ELSE 0)
            /\ Note(out)
            /\ IF IntrReadRetries(out)
               THEN UNCHANGED <<io_pc, io_result, io_errno>>
               ELSE IoReturns(out.ret, out.errno)
            /\ UNCHANGED <<io_fn, io_nbyte, io_arg, io_written,
                           io_buf, io_wrote,
                           io_sig_runs,
                           quit_flag, pending_signals>>
    /\ IoFrame

\* One iteration of emacs_full_write's while loop (or its exit).
emacs_full_write(out) ==
    /\ io_pc = "loop" /\ io_fn \in WriteFns
    /\ io_nbyte > 0 => Len(io_hist) + io_eintr < MaxCalls
    /\ IF ~(io_nbyte > 0)
       THEN /\ IoReturns(io_written, io_errno)
            /\ UNCHANGED <<io_fn, io_nbyte, io_arg, io_written,
                           io_buf, io_wrote,
                           io_req,
                           io_hist, io_eintr, io_quit_checks, io_sig_runs,
                           quit_flag, pending_signals>>
       ELSE /\ out \in RwOutcomes(WriteCount(io_nbyte))
            /\ io_req' = WriteCount(io_nbyte)
            /\ Note(out)
            /\ IF out.ret < 0
               THEN IF FullWriteBreaks(out)
                    THEN /\ IoReturns(io_written, out.errno)
                         /\ UNCHANGED <<io_nbyte, io_written, io_buf, io_wrote,
                                        io_quit_checks,
                                        io_sig_runs, quit_flag,
                                        pending_signals>>
                    ELSE IF WriteInterruptible(io_fn) # 0
                         THEN IF 0 < WriteInterruptible(io_fn)
                                 /\ MaybeQuitExits
                              THEN /\ IoQuits
                                   /\ UNCHANGED <<io_nbyte, io_written,
                                                  io_buf, io_wrote,
                                                  io_result, io_errno,
                                                  io_sig_runs,
                                                  pending_signals>>
                              ELSE /\ io_quit_checks' = io_quit_checks +
                                        (IF 0 < WriteInterruptible(io_fn)
                                         THEN 1 ELSE 0)
                                   /\ io_sig_runs' = io_sig_runs +
                                        (IF pending_signals THEN 1 ELSE 0)
                                   /\ pending_signals' = FALSE
                                   /\ UNCHANGED <<io_pc, io_nbyte, io_written,
                                                  io_buf, io_wrote,
                                                  io_result, io_errno,
                                                  quit_flag>>
                         ELSE UNCHANGED <<io_pc, io_nbyte, io_written,
                                          io_buf, io_wrote,
                                          io_result, io_errno, io_quit_checks,
                                          io_sig_runs, quit_flag,
                                          pending_signals>>
               ELSE /\ io_nbyte' = io_nbyte - out.ret
                    /\ io_written' = io_written + out.ret
                    /\ io_buf' = io_buf + out.ret
                    /\ io_wrote' = Append(io_wrote, [at |-> io_buf,
                                                     n |-> out.ret])
                    /\ UNCHANGED <<io_pc, io_result, io_errno, io_quit_checks,
                                   io_sig_runs, quit_flag, pending_signals>>
            /\ UNCHANGED <<io_fn, io_arg>>
    /\ IoFrame

\* One iteration of the open loop of emacs_openat (emacs_open) or of
\* emacs_open_noquit.
emacs_openat(out) ==
    /\ io_pc = "loop" /\ io_fn \in OpenFns
    /\ Len(io_hist) + io_eintr < MaxCalls
    /\ out \in OpenOutcomes
    /\ Note(out)
    /\ IF OpenRetries(out)
       THEN IF io_fn = "emacs_open" /\ MaybeQuitExits
            THEN /\ IoQuits
                 /\ UNCHANGED <<io_result, io_errno>>
            ELSE /\ io_quit_checks' =
                      io_quit_checks + (IF io_fn = "emacs_open" THEN 1 ELSE 0)
                 /\ UNCHANGED <<io_pc, io_result, io_errno, quit_flag>>
       ELSE /\ IoReturns(out.ret, out.errno)
            /\ UNCHANGED <<io_quit_checks, quit_flag>>
    /\ UNCHANGED <<io_fn, io_nbyte, io_arg, io_written, io_buf, io_wrote,
                   io_req, io_sig_runs,
                   pending_signals>>
    /\ IoFrame

\* POSIX_CLOSE_RESTART as sysdep.c defines it where the host does not.
POSIX_CLOSE_RESTART == 1

\* posix_close as sysdep.c emulates it:
\* "return close (fd) == 0 || errno == EINTR ? 0 : -1;".
posix_close_Mutant(out) ==
    [ret |-> IF out.ret = 0 THEN 0 ELSE -1, errno |-> out.errno]
posix_close(out) ==
    [ret |-> IF out.ret = 0 \/ out.errno = "EINTR" THEN 0 ELSE -1,
     errno |-> out.errno]

\* One iteration of emacs_close's loop; OUT is what close answers.
emacs_close(out) ==
    /\ io_pc = "loop" /\ io_fn \in CloseFns
    /\ Len(io_hist) + io_eintr < MaxCalls
    /\ out \in CloseOutcomes
    /\ Note(out)
    /\ LET r == posix_close(out)
       IN  IF r.ret = 0
           THEN IoReturns(r.ret, r.errno)
           ELSE IF POSIX_CLOSE_RESTART = 0 \/ r.errno # "EINTR"
           THEN IoReturns(IF r.errno = "EINPROGRESS" THEN 0 ELSE r.ret,
                          r.errno)
           ELSE UNCHANGED <<io_pc, io_result, io_errno>>
    /\ UNCHANGED <<io_fn, io_nbyte, io_arg, io_written, io_buf, io_wrote,
                   io_req, io_quit_checks, io_sig_runs, quit_flag,
                   pending_signals>>
    /\ IoFrame

\* emacs_pipe, sys_fstat, emacs_rename: "return pipe2 (...)",
\* "return fstat (...)", "return rename (...)".
PlainWrapper(out) ==
    /\ io_pc = "loop" /\ io_fn \in PlainFns
    /\ out \in PlainOutcomes(io_fn)
    /\ Note(out)
    /\ IoReturns(out.ret, out.errno)
    /\ UNCHANGED <<io_fn, io_nbyte, io_arg, io_written, io_buf, io_wrote,
                   io_req, io_quit_checks, io_sig_runs, quit_flag,
                   pending_signals>>
    /\ IoFrame

\* The caller takes the result (or the quit unwinds); the layer is idle again.
IoDone ==
    /\ io_pc \in {"returned", "quit"}
    /\ io_fn' = "idle" /\ io_pc' = "idle"
    /\ io_nbyte' = 0 /\ io_arg' = 0 /\ io_written' = 0
    /\ io_buf' = 0 /\ io_wrote' = <<>>
    /\ io_result' = 0 /\ io_errno' = "none" /\ io_req' = 0
    /\ io_hist' = <<>> /\ io_eintr' = 0
    /\ io_quit_checks' = 0 /\ io_sig_runs' = 0
    /\ UNCHANGED <<quit_flag, pending_signals>>
    /\ IoFrame

\* The user asks to quit (the keyboard handler sets Vquit_flag).
RequestQuit ==
    /\ ~quit_flag
    /\ quit_flag' = TRUE
    /\ UNCHANGED <<io_fn, io_pc, io_nbyte, io_arg, io_written,
                   io_buf, io_wrote,
                   io_result,
                   io_errno, io_req, io_hist, io_eintr, io_quit_checks,
                   io_sig_runs, pending_signals>>
    /\ IoFrame

\* A signal handler defers work (sets pending_signals).
DeferSignal ==
    /\ ~pending_signals
    /\ pending_signals' = TRUE
    /\ UNCHANGED <<io_fn, io_pc, io_nbyte, io_arg, io_written,
                   io_buf, io_wrote,
                   io_result,
                   io_errno, io_req, io_hist, io_eintr, io_quit_checks,
                   io_sig_runs, quit_flag>>
    /\ IoFrame

(***************************************************************************)
(* Terminal modes                                                          *)
(***************************************************************************)

\* The terminal Emacs was started on (1) and a secondary terminal (2).
Ttys == {1, 2}

\* The bits of struct termios the layer reads or writes, and some it leaves.
IFlags == {"IGNBRK", "BRKINT", "ICRNL", "INLCR", "ISTRIP", "IXON", "IXANY"}
OFlags == {"OPOST", "ONLCR", "TAB1", "TAB2"}
CFlags == {"CS6", "CS7", "PARENB", "CREAD"}
LFlags == {"ECHO", "ICANON", "IEXTEN", "ISIG", "TOSTOP"}
\* TAB3 and CS8 are both bits of their two-bit fields.
TAB3 == {"TAB1", "TAB2"}
CS8 == {"CS6", "CS7"}
CcNames == {"VINTR", "VQUIT", "VERASE", "VMIN", "VTIME", "VSUSP", "VLNEXT",
            "VREPRINT", "VWERASE", "VDISCARD", "VSTART", "VSTOP"}

\* The value that disables a special character, and the quit character C-g.
CDISABLE == 255
quit_char == 7

\* memset (&settings->main, 0, ...): what emacs_get_tty leaves on failure.
ZeroTermios ==
    [iflag |-> {}, oflag |-> {}, cflag |-> {}, lflag |-> {},
     c_cc |-> [c \in CcNames |-> 0]]

\* The usual mode of a terminal under a shell.
CookedCc ==
    [c \in CcNames |->
        CASE c = "VINTR" -> 3 [] c = "VQUIT" -> 28 [] c = "VERASE" -> 127
          [] c = "VMIN" -> 1 [] c = "VTIME" -> 0 [] c = "VSUSP" -> 26
          [] c = "VLNEXT" -> 22 [] c = "VREPRINT" -> 18 [] c = "VWERASE" -> 23
          [] c = "VDISCARD" -> 15 [] c = "VSTART" -> 17 [] c = "VSTOP" -> 19]

CookedMode ==
    [iflag |-> {"BRKINT", "ICRNL", "IXON"},
     oflag |-> {"OPOST", "ONLCR"},
     cflag |-> {"CS6", "CS7", "CREAD"},
     lflag |-> {"ECHO", "ICANON", "IEXTEN", "ISIG"},
     c_cc |-> CookedCc]

\* The attribute sets terminal 1 may start with: each bit of the model is set
\* in one of them and clear in another.
InitialModes ==
    { CookedMode,
      ZeroTermios,
      [iflag |-> IFlags, oflag |-> OFlags, cflag |-> CFlags, lflag |-> LFlags,
       c_cc |-> [c \in CcNames |-> CDISABLE]],
      [iflag |-> {"IGNBRK", "INLCR", "ISTRIP", "IXANY"},
       oflag |-> {"TAB1", "TAB2"},
       cflag |-> {"CS7", "PARENB"},
       lflag |-> {"ICANON", "TOSTOP"},
       c_cc |-> [CookedCc EXCEPT !["VINTR"] = quit_char, !["VMIN"] = 4,
                                 !["VTIME"] = 2, !["VSTART"] = CDISABLE]],
      [iflag |-> {"ICRNL", "ISTRIP", "IXON", "IXANY"},
       oflag |-> {"OPOST", "ONLCR", "TAB2"},
       cflag |-> {"CS6", "PARENB", "CREAD"},
       lflag |-> {"ECHO", "IEXTEN"},
       c_cc |-> [CookedCc EXCEPT !["VQUIT"] = CDISABLE, !["VSUSP"] = 0]] }

\* emacs_get_tty: the attributes read, or the zeroed structure when tcgetattr
\* fails.
emacs_get_tty(t, get_ok) == IF get_ok THEN termios[t] ELSE ZeroTermios

\* The number of attempts emacs_set_tty makes.
SetTtyTries == 10

\* How tcsetattr behaves during one emacs_set_tty call: it fails with EINTR
\* a number of times and from then on answers "OK" (sets everything),
\* "REFUSE" (reports success but leaves c_cflag as it was) or "ERR".
TcsetattrBehaviours ==
    {[eintr |-> n, then |-> y] : n \in {0, 1}, y \in {"OK", "REFUSE", "ERR"}}
    \cup {[eintr |-> SetTtyTries, then |-> "OK"]}

TcsetattrOutcome(beh, i) == IF i < beh.eintr THEN "EINTR" ELSE beh.then

\* What the kernel holds after a tcsetattr that reported success.
TcsetattrApplied(cur, req, outcome) ==
    IF outcome = "OK" THEN req ELSE [req EXCEPT !.cflag = cur.cflag]

\* The comparison of the read-back attributes with the requested ones.
ReadBackMatches(new, req) ==
    /\ new.iflag = req.iflag
    /\ new.oflag = req.oflag
    /\ new.cflag = req.cflag
    /\ new.lflag = req.lflag
    /\ new.c_cc = req.c_cc

\* emacs_set_tty's loop from attempt I on, the kernel holding CUR: the value
\* returned, the attributes the kernel holds afterwards, whether a read-back
\* matched, and the number of tcsetattr calls made.
SetTtyLoop_Mutant(i, cur, req, beh) ==
    LET outcome == TcsetattrOutcome(beh, i)
        new == TcsetattrApplied(cur, req, outcome)
    IN IF outcome \in {"EINTR", "ERR"}
       THEN [ret |-> -1, errno |-> "EIO", attrs |-> cur, matched |-> FALSE,
             calls |-> i + 1]
       ELSE [ret |-> 0, errno |-> "none", attrs |-> new,
             matched |-> ReadBackMatches(new, req), calls |-> i + 1]
RECURSIVE SetTtyLoop(_, _, _, _)
SetTtyLoop(i, cur, req, beh) ==
    IF ~(i < SetTtyTries)
    THEN [ret |-> 0, errno |-> "none", attrs |-> cur, matched |-> FALSE,
          calls |-> i]
    ELSE LET outcome == TcsetattrOutcome(beh, i) IN
         IF outcome \in {"EINTR", "ERR"}
         THEN IF outcome = "EINTR"
              THEN SetTtyLoop(i + 1, cur, req, beh)
              ELSE [ret |-> -1, errno |-> "EIO", attrs |-> cur,
                    matched |-> FALSE, calls |-> i + 1]
         ELSE LET new == TcsetattrApplied(cur, req, outcome) IN
              IF ReadBackMatches(new, req)
              THEN [ret |-> 0, errno |-> "none", attrs |-> new,
                    matched |-> TRUE, calls |-> i + 1]
              ELSE SetTtyLoop(i + 1, new, req, beh)

emacs_set_tty(t, settings, beh) == SetTtyLoop(0, termios[t], settings, beh)

\* The editing mode init_sys_modes derives from the snapshot OLD for device T.
EditingMode_Mutant(t, old) == [old EXCEPT !.lflag = @ \ {"ECHO", "ICANON"}]
EditingMode(t, old) ==
    LET i1 == ((old.iflag \cup {"IGNBRK"}) \ {"ICRNL"}) \ {"INLCR", "ISTRIP"}
        l1 == ((old.lflag \ {"ECHO"}) \ {"ICANON"}) \ {"IEXTEN"}
        l2 == l1 \cup {"ISIG"}
        i2 == IF ttys[t].flow_control
              THEN (i1 \cup {"IXON"}) \ {"IXANY"}
              ELSE i1 \ {"IXON"}
        o1 == (old.oflag \ {"ONLCR"}) \ TAB3
        c1 == IF ttys[t].meta_key
              THEN (old.cflag \cup CS8) \ {"PARENB"}
              ELSE old.cflag
        intr == IF ttys[t].controlling THEN quit_char ELSE CDISABLE
        cc == [c \in CcNames |->
                 CASE c \in {"VINTR", "VQUIT"} -> intr
                   [] c = "VMIN" -> 1
                   [] c = "VTIME" -> 0
                   [] c \in {"VSUSP", "VLNEXT", "VREPRINT", "VWERASE",
                             "VDISCARD"} -> CDISABLE
                   [] c = "VSTART" ->
                        IF ttys[t].flow_control THEN 17 ELSE CDISABLE
                   [] c = "VSTOP" ->
                        IF ttys[t].flow_control THEN 19 ELSE CDISABLE
                   [] OTHER -> old.c_cc[c]]
    IN [iflag |-> i2, oflag |-> o1, cflag |-> c1, lflag |-> l2, c_cc |-> cc]

\* The snapshot init_sys_modes keeps in tty_out->old_tty.
SavedSnapshot_Mutant(t, got) == EditingMode(t, got)
SavedSnapshot(t, got) == got

\* The mode reset_sys_modes sets back.
RestoredMode(t) == ttys[t].old_tty

(***************************************************************************)
(* The foreground process group                                            *)
(***************************************************************************)

\* getpid (), and the process group of the shell that started Emacs.
MyPid == 2
ShellPgrp == 1

\* tcsetpgrp (fd, pgid) under tcsetpgrp_without_stopping: the foreground
\* group afterwards.  It takes effect only on the controlling terminal.
tcsetpgrp_without_stopping(t, pgid, tc_ok) ==
    IF tc_ok /\ ttys[t].controlling THEN pgid ELSE tty_fg

\* narrow_foreground_group on the descriptor of device T: the process group
\* and the foreground group afterwards, and the system calls made.
narrow_foreground_group_Mutant(t, sp_ok, tc_ok) ==
    IF inherited_pgroup # 0
    THEN [pgrp |-> IF sp_ok THEN MyPid ELSE emacs_pgrp,
          fg |-> tcsetpgrp_without_stopping(t, MyPid, tc_ok),
          setpgid |-> IF sp_ok THEN "ok" ELSE "fail",
          tcsetpgrp |-> IF tc_ok /\ ttys[t].controlling THEN "ok" ELSE "fail"]
    ELSE [pgrp |-> emacs_pgrp, fg |-> tty_fg,
          setpgid |-> "none", tcsetpgrp |-> "none"]
narrow_foreground_group_Stale(t, sp_ok, tc_ok) ==
    IF inherited_pgroup # 0 /\ sp_ok
    THEN [pgrp |-> MyPid,
          fg |-> tcsetpgrp_without_stopping(t, emacs_pgrp, tc_ok),
          setpgid |-> "ok",
          tcsetpgrp |-> IF tc_ok /\ ttys[t].controlling THEN "ok" ELSE "fail"]
    ELSE [pgrp |-> emacs_pgrp, fg |-> tty_fg,
          setpgid |-> IF inherited_pgroup # 0 THEN "fail" ELSE "none",
          tcsetpgrp |-> "none"]
narrow_foreground_group(t, sp_ok, tc_ok) ==
    IF inherited_pgroup # 0
    THEN IF sp_ok
         THEN [pgrp |-> MyPid,
               fg |-> tcsetpgrp_without_stopping(t, MyPid, tc_ok),
               setpgid |-> "ok",
               tcsetpgrp |-> IF tc_ok /\ ttys[t].controlling
                             THEN "ok" ELSE "fail"]
         ELSE [pgrp |-> emacs_pgrp, fg |-> tty_fg,
               setpgid |-> "fail", tcsetpgrp |-> "none"]
    ELSE [pgrp |-> emacs_pgrp, fg |-> tty_fg,
          setpgid |-> "none", tcsetpgrp |-> "none"]

\* widen_foreground_group on the descriptor of device T.
widen_foreground_group_Mutant(t, sp_ok, tc_ok) ==
    IF sp_ok
    THEN [pgrp |-> ShellPgrp,
          fg |-> tcsetpgrp_without_stopping(t, ShellPgrp, tc_ok),
          setpgid |-> "ok",
          tcsetpgrp |-> IF tc_ok /\ ttys[t].controlling THEN "ok" ELSE "fail"]
    ELSE [pgrp |-> emacs_pgrp, fg |-> tty_fg,
          setpgid |-> "fail", tcsetpgrp |-> "none"]
widen_foreground_group(t, sp_ok, tc_ok) ==
    IF inherited_pgroup # 0
    THEN IF sp_ok
         THEN [pgrp |-> inherited_pgroup,
               fg |-> tcsetpgrp_without_stopping(t, inherited_pgroup, tc_ok),
               setpgid |-> "ok",
               tcsetpgrp |-> IF tc_ok /\ ttys[t].controlling
                             THEN "ok" ELSE "fail"]
         ELSE [pgrp |-> emacs_pgrp, fg |-> tty_fg,
               setpgid |-> "fail", tcsetpgrp |-> "none"]
    ELSE [pgrp |-> emacs_pgrp, fg |-> tty_fg,
          setpgid |-> "none", tcsetpgrp |-> "none"]

\* The outcomes of setpgid and tcsetpgrp that a narrow or widen can meet:
\* none to choose when the call is not made.
SetpgidOutcomes == IF inherited_pgroup # 0 THEN BOOLEAN ELSE {TRUE}
TcsetpgrpOutcomes(sp_ok) ==
    IF inherited_pgroup # 0 /\ sp_ok THEN BOOLEAN ELSE {TRUE}

NoSet == [ret |-> 0, matched |-> FALSE, calls |-> 0]
NoCall ==
    [op |-> "none", tty |-> 0, acted |-> FALSE, setpgid |-> "none",
     tcsetpgrp |-> "none", pre_pgrp |-> 0, pre_fg |-> 0, get_ok |-> FALSE,
     set |-> NoSet]
NoSeq == [phase |-> "none", ok |-> FALSE]

\* The terminal part before anything has run.  START is the process group
\* Emacs starts in; Emacs starts in the foreground.
TtyStart(start, modes, devs) ==
    /\ ttys = devs
    /\ termios = modes
    /\ fg_initted = FALSE
    /\ inherited_pgroup = 0
    /\ emacs_pgrp = start
    /\ tty_fg = start
    /\ pre_init = [t \in Ttys |-> ZeroTermios]
    /\ seq = [t \in Ttys |-> NoSeq]
    /\ last = NoCall
    /\ narrowed = FALSE
    /\ narrow_open = FALSE
    /\ unmatched = FALSE

\* A device as tty_list holds it before it is first initialized.  A
\* suspended device has neither an output nor an input stream.
NewTty(output, flow, meta, ctl) ==
    [output |-> output, input |-> output,
     old_set |-> FALSE, old_tty |-> ZeroTermios,
     term_initted |-> FALSE, flow_control |-> flow, meta_key |-> meta,
     controlling |-> ctl]

\* Before any discard_tty_input: QUEUED tells which devices have unread
\* input.
NoDiscard == [did |-> "none", same |-> FALSE, option |-> "none", ret |-> 0]

DiscardStart(queued) ==
    /\ typeahead = queued
    /\ discards = [t \in Ttys |-> NoDiscard]

DiscardQuiet == DiscardStart([t \in Ttys |-> FALSE])

\* No function has been applied; ARGS are the arguments drawn for it.
NoResult == [ret |-> FALSE]
PureStart(args) ==
    /\ pure_fn = "none"
    /\ pure_args = args
    /\ pure_result = NoResult

PureQuiet == PureStart([none |-> TRUE])

\* No thread has taken a fatal signal: the static buffer and count are zero.
NoPointer == [thread |-> "none", frame |-> 0]
BtQuiet ==
    /\ thread_backtrace_buffer = [i \in 1..BACKTRACE_LIMIT_MAX |-> NoPointer]
    /\ thread_backtrace_npointers = 0
    /\ bt_pc = [th \in SubsidiaryThreads |-> "running"]
    /\ bt_depth = [th \in SubsidiaryThreads |-> 0]
    /\ bt_slot = [th \in SubsidiaryThreads |-> 0]
    /\ bt_killed = {}
    /\ bt_printed = << >>

\* The state of the SIGIO part when Emacs starts: MASK is the signal mask
\* the threads start with and FLAGS the descriptors' file status flags.
SioStart(mask, flags) ==
    /\ interrupts_deferred = 0
    /\ sio_mask = [th \in Threads |-> mask]
    /\ fd_flags = flags
    /\ old_fcntl_flags = [fd \in SioFds |-> {}]
    /\ sio_last = [op |-> "none", thread |-> main_thread_id]

SioQuiet == SioStart({}, [fd \in SioFds |-> {}])

\* Neither init_sys_modes nor reset_sys_modes has been entered.
OrdQuiet ==
    /\ ord_fn = "none"
    /\ ord_step = 0
    /\ ord_log = << >>
    /\ ord_done = FALSE
    /\ out_pending = FALSE

TtyQuiet ==
    TtyStart(MyPid, [t \in Ttys |-> CookedMode],
             [t \in Ttys |-> NewTty(TRUE, FALSE, FALSE, t = 1)])

\* The terminal-mode specification works on terminal 1, which starts with any
\* of InitialModes, is the controlling terminal or not, and may be suspended
\* (its output stream is null).
InitTty ==
    /\ BtQuiet
    /\ OrdQuiet
    /\ SioQuiet
    /\ noninteractive \in BOOLEAN
    /\ \E m \in InitialModes,
          o1 \in BOOLEAN, flow \in BOOLEAN, meta \in BOOLEAN,
          ctl \in BOOLEAN :
          TtyStart(ShellPgrp,
                   [t \in Ttys |-> IF t = 1 THEN m ELSE CookedMode],
                   [t \in Ttys |->
                      IF t = 1 THEN NewTty(o1, flow, meta, ctl)
                      ELSE NewTty(TRUE, FALSE, FALSE, FALSE)])
    /\ IoStart
    /\ SigQuiet
    /\ TcQuiet
    /\ ChQuiet
    /\ DiscardQuiet
    /\ PureQuiet

\* The process-group specification works on both terminals, which start in
\* the usual mode; terminal 1 is the controlling terminal or not, terminal 2
\* never is, and either may be suspended.
InitPgrp ==
    /\ BtQuiet
    /\ OrdQuiet
    /\ SioQuiet
    /\ noninteractive \in BOOLEAN
    /\ \E start \in {MyPid, ShellPgrp}, o1 \in BOOLEAN, o2 \in BOOLEAN,
          ctl \in BOOLEAN :
          TtyStart(start,
                   [t \in Ttys |-> CookedMode],
                   [t \in Ttys |->
                      IF t = 1 THEN NewTty(o1, FALSE, FALSE, ctl)
                      ELSE NewTty(o2, FALSE, FALSE, FALSE)])
    /\ IoStart
    /\ SigQuiet
    /\ TcQuiet
    /\ ChQuiet
    /\ DiscardQuiet
    /\ PureQuiet

TtyFrame ==
    UNCHANGED <<ioVars, noninteractive, sigVars, tcVars, chVars, dcVars, btVars,
                sioVars,
                pureVars,
                ordVars>>

\* init_sys_modes, reset_sys_modes: "if (!tty_out->output) return;".
Suspended_Mutant(t) == FALSE
Suspended(t) == ~ttys[t].output

init_foreground_group ==
    /\ ~fg_initted
    /\ fg_initted' = TRUE
    /\ inherited_pgroup' = IF MyPid = emacs_pgrp THEN 0 ELSE emacs_pgrp
    /\ last' = [NoCall EXCEPT !.op = "init_foreground_group"]
    /\ UNCHANGED <<ttys, termios, emacs_pgrp, tty_fg, pre_init, seq, narrowed,
                   narrow_open, unmatched>>
    /\ TtyFrame

\* init_sys_modes (tty_out) for device T.
init_sys_modes(t, sp_ok, tc_ok, get_ok, beh) ==
    /\ fg_initted
    /\ IF noninteractive \/ Suspended(t)
       THEN /\ last' = [NoCall EXCEPT !.op = "init_sys_modes", !.tty = t]
            /\ UNCHANGED <<ttys, termios, emacs_pgrp, tty_fg, pre_init, seq,
                           narrowed, narrow_open, unmatched>>
       ELSE LET nar == narrow_foreground_group(t, sp_ok, tc_ok)
                got == emacs_get_tty(t, get_ok)
                old == SavedSnapshot(t, got)
                tty == EditingMode(t, old)
                set == emacs_set_tty(t, tty, beh)
            IN /\ emacs_pgrp' = nar.pgrp
               /\ tty_fg' = nar.fg
               /\ ttys' = [ttys EXCEPT ![t].old_set = TRUE,
                                       ![t].old_tty = old,
                                       ![t].term_initted = TRUE]
               /\ termios' = [termios EXCEPT ![t] = set.attrs]
               /\ pre_init' = [pre_init EXCEPT ![t] = termios[t]]
               /\ seq' = [seq EXCEPT ![t] = [phase |-> "init", ok |-> get_ok]]
               /\ last' = [op |-> "init_sys_modes", tty |-> t, acted |-> TRUE,
                           setpgid |-> nar.setpgid,
                           tcsetpgrp |-> nar.tcsetpgrp,
                           pre_pgrp |-> emacs_pgrp, pre_fg |-> tty_fg,
                           get_ok |-> get_ok,
                           set |-> [ret |-> set.ret, matched |-> set.matched,
                                    calls |-> set.calls]]
               /\ IF inherited_pgroup # 0
                  THEN /\ narrowed' = (narrowed \/ nar.tcsetpgrp = "ok")
                       /\ narrow_open' = TRUE
                       /\ unmatched' = (unmatched \/ narrow_open)
                  ELSE UNCHANGED <<narrowed, narrow_open, unmatched>>
    /\ UNCHANGED <<fg_initted, inherited_pgroup>>
    /\ TtyFrame

\* reset_sys_modes (tty_out) for device T.
reset_sys_modes(t, sp_ok, tc_ok, beh) ==
    /\ fg_initted
    /\ IF noninteractive \/ ~ttys[t].term_initted \/ Suspended(t)
       THEN /\ last' = [NoCall EXCEPT !.op = "reset_sys_modes", !.tty = t]
            /\ UNCHANGED <<ttys, termios, emacs_pgrp, tty_fg, pre_init, seq,
                           narrowed, narrow_open, unmatched>>
       ELSE LET set == IF ttys[t].old_set
                       THEN emacs_set_tty(t, RestoredMode(t), beh)
                       ELSE [NoSet EXCEPT !.ret = 0] @@ [attrs |-> termios[t]]
                wid == widen_foreground_group(t, sp_ok, tc_ok)
            IN /\ termios' = [termios EXCEPT ![t] = set.attrs]
               /\ emacs_pgrp' = wid.pgrp
               /\ tty_fg' = wid.fg
               /\ seq' = [seq EXCEPT ![t] =
                            IF seq[t].phase = "init"
                            THEN [phase |-> "init_reset",
                                  ok |-> seq[t].ok /\ set.matched]
                            ELSE NoSeq]
               /\ pre_init' = [pre_init EXCEPT ![t] =
                                 IF seq[t].phase = "init"
                                 THEN @ ELSE ZeroTermios]
               /\ last' = [op |-> "reset_sys_modes", tty |-> t,
                           acted |-> TRUE,
                           setpgid |-> wid.setpgid,
                           tcsetpgrp |-> wid.tcsetpgrp,
                           pre_pgrp |-> emacs_pgrp, pre_fg |-> tty_fg,
                           get_ok |-> FALSE,
                           set |-> [ret |-> set.ret, matched |-> set.matched,
                                    calls |-> set.calls]]
               /\ IF inherited_pgroup # 0
                  THEN /\ narrowed' = FALSE
                       /\ narrow_open' = FALSE
                       /\ unmatched' = (unmatched \/ ~narrow_open)
                  ELSE UNCHANGED <<narrowed, narrow_open, unmatched>>
               /\ UNCHANGED ttys
    /\ UNCHANGED <<fg_initted, inherited_pgroup>>
    /\ TtyFrame

\* tcsetattr behaviours of the process-group specification.
PgrpBehaviours ==
    {[eintr |-> 0, then |-> y] : y \in {"OK", "ERR"}}

NextTty ==
    \/ init_foreground_group
    \/ \E get_ok \in BOOLEAN, beh \in TcsetattrBehaviours :
         init_sys_modes(1, TRUE, TRUE, get_ok, beh)
    \/ \E beh \in TcsetattrBehaviours :
         reset_sys_modes(1, TRUE, TRUE, beh)

SpecTty == InitTty /\ [][NextTty]_vars

NextPgrp ==
    \/ init_foreground_group
    \/ \E t \in Ttys, sp_ok \in SetpgidOutcomes :
         \E tc_ok \in TcsetpgrpOutcomes(sp_ok), beh \in PgrpBehaviours :
            init_sys_modes(t, sp_ok, tc_ok, TRUE, beh)
    \/ \E t \in Ttys, sp_ok \in SetpgidOutcomes :
         \E tc_ok \in TcsetpgrpOutcomes(sp_ok), beh \in PgrpBehaviours :
            reset_sys_modes(t, sp_ok, tc_ok, beh)

SpecPgrp == InitPgrp /\ [][NextPgrp]_vars

(***************************************************************************)
(* discard_tty_input                                                       *)
(***************************************************************************)

\* discard_tty_input: "if (tty->input)" -- a suspended device is skipped.
DiscardSkips(t) == ~ttys[t].input

\* The FLUSHP that discard_tty_input passes to emacs_set_tty.
DiscardFlushp == FALSE

\* emacs_set_tty: "flushp ? TCSAFLUSH : TCSADRAIN".
TcsetattrOption(flushp) == IF flushp THEN "TCSAFLUSH" ELSE "TCSADRAIN"

\* Whether input is still queued after an emacs_set_tty that called
\* tcsetattr with OPTION and left its loop as SET tells: only a tcsetattr
\* that succeeds with TCSAFLUSH discards the queue.
QueuedAfter(queued, option, set) ==
    IF option = "TCSAFLUSH" /\ set.ret = 0 /\ set.matched
    THEN FALSE
    ELSE queued

\* discard_tty_input (): for every device of tty_list that has an input
\* stream, emacs_get_tty into buf and emacs_set_tty (buf, 0).
discard_tty_input(get_ok, beh) ==
    /\ IF noninteractive
       THEN /\ discards' = [t \in Ttys |-> NoDiscard]
            /\ UNCHANGED <<termios, typeahead>>
       ELSE LET buf == [t \in Ttys |-> emacs_get_tty(t, get_ok[t])]
                set == [t \in Ttys |-> emacs_set_tty(t, buf[t], beh[t])]
                option == TcsetattrOption(DiscardFlushp)
            IN /\ termios' = [t \in Ttys |->
                                IF DiscardSkips(t) THEN termios[t]
                                ELSE set[t].attrs]
               /\ typeahead' = [t \in Ttys |->
                                  IF DiscardSkips(t) THEN typeahead[t]
                                  ELSE QueuedAfter(typeahead[t], option,
                                                   set[t])]
               /\ discards' = [t \in Ttys |->
                                 IF DiscardSkips(t)
                                 THEN [NoDiscard EXCEPT !.did = "skipped"]
                                 ELSE [did |-> "acted",
                                       same |-> (buf[t] = termios[t]),
                                       option |-> option,
                                       ret |-> set[t].ret]]
    /\ last' = [NoCall EXCEPT !.op = "discard_tty_input"]
    /\ UNCHANGED <<ttys, fg_initted, inherited_pgroup, emacs_pgrp, tty_fg,
                   pre_init, seq, narrowed, narrow_open, unmatched>>
    /\ UNCHANGED <<ioVars, noninteractive, sigVars, tcVars, chVars,
                   pureVars, btVars, sioVars, ordVars>>

\* A device that was initialized and then suspended: its streams are null,
\* its snapshot and its term_initted flag remain.
SuspendedTty ==
    [NewTty(FALSE, FALSE, FALSE, FALSE)
       EXCEPT !.old_set = TRUE, !.old_tty = CookedMode,
              !.term_initted = TRUE]

\* Emacs runs interactive or not, with two terminals in the usual mode and
\* with input queued or not; terminal 1, the controlling terminal, is open
\* or suspended, terminal 2 also or was suspended after it was initialized.
InitDiscard ==
    /\ BtQuiet
    /\ OrdQuiet
    /\ SioQuiet
    /\ noninteractive \in BOOLEAN
    /\ \E o1 \in BOOLEAN,
          d2 \in {NewTty(TRUE, FALSE, FALSE, FALSE),
                  NewTty(FALSE, FALSE, FALSE, FALSE), SuspendedTty} :
          TtyStart(ShellPgrp,
                   [t \in Ttys |-> CookedMode],
                   [t \in Ttys |->
                      IF t = 1 THEN NewTty(o1, FALSE, FALSE, TRUE) ELSE d2])
    /\ \E queued \in [Ttys -> BOOLEAN] : DiscardStart(queued)
    /\ PureQuiet
    /\ IoStart
    /\ SigQuiet
    /\ TcQuiet
    /\ ChQuiet

\* The system calls of init_sys_modes and reset_sys_modes succeed here; those
\* of discard_tty_input succeed or fail, on all devices alike.
AllGoesWell == [eintr |-> 0, then |-> "OK"]

NextDiscard ==
    \/ \E get_ok \in BOOLEAN, beh \in PgrpBehaviours :
          discard_tty_input([t \in Ttys |-> get_ok], [t \in Ttys |-> beh])
    \/ init_foreground_group
    \/ \E t \in Ttys : init_sys_modes(t, TRUE, TRUE, TRUE, AllGoesWell)
    \/ \E t \in Ttys : reset_sys_modes(t, TRUE, TRUE, AllGoesWell)

SpecDiscard == InitDiscard /\ [][NextDiscard]_vars

(***************************************************************************)
(* tcsetpgrp_without_stopping, statement by statement                      *)
(***************************************************************************)

\* The signals the calling thread may have blocked on entry.
TcSigs == {"SIGTTOU", "SIGINT"}

\* block_tty_out_signal: pthread_sigmask (SIG_BLOCK, {SIGTTOU}, oldset).
block_tty_out_signal(mask) ==
    [mask |-> mask \cup {"SIGTTOU"}, oldset |-> mask]

\* unblock_tty_out_signal: pthread_sigmask (SIG_SETMASK, oldset, 0).
unblock_tty_out_signal_Mutant(mask, old) == mask \ {"SIGTTOU"}
unblock_tty_out_signal(mask, old) == old

\* block_input and unblock_input: one level of nesting in and out.
block_input(depth) == depth + 1
unblock_input(depth) == depth - 1

TcFrame ==
    UNCHANGED <<ioVars, noninteractive, sigVars, chVars, dcVars, btVars,
                sioVars, pureVars,
                ttys, termios, fg_initted, inherited_pgroup, emacs_pgrp,
                pre_init, seq, last, narrowed, narrow_open, unmatched,
                ordVars>>

\* A caller enters tcsetpgrp_without_stopping (FD, PGID).
TcCall(t, pgid) ==
    /\ tc_pc = "idle"
    /\ tc_pc' = "block_input"
    /\ tc_args' = [t |-> t, pgid |-> pgid]
    /\ tc_entry' = [mask |-> thread_mask, depth |-> interrupt_input_blocked]
    /\ tc_at_call' = NoMask
    /\ UNCHANGED <<thread_mask, oldset, interrupt_input_blocked, tty_fg>>
    /\ TcFrame

TcBlockInput ==
    /\ tc_pc = "block_input"
    /\ interrupt_input_blocked' = block_input(interrupt_input_blocked)
    /\ tc_pc' = "block_tty_out_signal"
    /\ UNCHANGED <<tc_args, thread_mask, oldset, tc_entry, tc_at_call,
                   tty_fg>>
    /\ TcFrame

TcBlockTtyOut ==
    /\ tc_pc = "block_tty_out_signal"
    /\ thread_mask' = block_tty_out_signal(thread_mask).mask
    /\ oldset' = block_tty_out_signal(thread_mask).oldset
    /\ tc_pc' = "tcsetpgrp"
    /\ UNCHANGED <<tc_args, interrupt_input_blocked, tc_entry, tc_at_call,
                   tty_fg>>
    /\ TcFrame

\* The tcsetpgrp system call itself, which succeeds or fails.
TcSetpgrp(tc_ok) ==
    /\ tc_pc = "tcsetpgrp"
    /\ tty_fg' = tcsetpgrp_without_stopping(tc_args.t, tc_args.pgid, tc_ok)
    /\ tc_at_call' =
         [mask |-> thread_mask, depth |-> interrupt_input_blocked]
    /\ tc_pc' = "unblock_tty_out_signal"
    /\ UNCHANGED <<tc_args, thread_mask, oldset, interrupt_input_blocked,
                   tc_entry>>
    /\ TcFrame

TcUnblockTtyOut ==
    /\ tc_pc = "unblock_tty_out_signal"
    /\ thread_mask' = unblock_tty_out_signal(thread_mask, oldset)
    /\ tc_pc' = "unblock_input"
    /\ UNCHANGED <<tc_args, oldset, interrupt_input_blocked, tc_entry,
                   tc_at_call, tty_fg>>
    /\ TcFrame

TcUnblockInput ==
    /\ tc_pc = "unblock_input"
    /\ interrupt_input_blocked' = unblock_input(interrupt_input_blocked)
    /\ tc_pc' = "returned"
    /\ UNCHANGED <<tc_args, thread_mask, oldset, tc_entry, tc_at_call,
                   tty_fg>>
    /\ TcFrame

\* The caller goes on; it may call again.
TcDone ==
    /\ tc_pc = "returned"
    /\ tc_pc' = "idle"
    /\ tc_args' = NoTcArgs
    /\ tc_entry' = NoMask
    /\ tc_at_call' = NoMask
    /\ UNCHANGED <<thread_mask, oldset, interrupt_input_blocked, tty_fg>>
    /\ TcFrame

\* The calling thread starts with any of TcSigs blocked, inside block_input
\* or not; terminal 1 is the controlling terminal or not.
InitTc ==
    /\ BtQuiet
    /\ OrdQuiet
    /\ SioQuiet
    /\ noninteractive \in BOOLEAN
    /\ \E start \in {MyPid, ShellPgrp}, ctl \in BOOLEAN :
          TtyStart(start,
                   [t \in Ttys |-> CookedMode],
                   [t \in Ttys |->
                      IF t = 1 THEN NewTty(TRUE, FALSE, FALSE, ctl)
                      ELSE NewTty(TRUE, FALSE, FALSE, FALSE)])
    /\ \E mask \in SUBSET TcSigs, depth \in {0, 1} : TcStart(mask, depth)
    /\ IoStart
    /\ SigQuiet
    /\ ChQuiet
    /\ DiscardQuiet
    /\ PureQuiet

NextTc ==
    \/ \E t \in Ttys, pgid \in {MyPid, ShellPgrp} : TcCall(t, pgid)
    \/ TcBlockInput
    \/ TcBlockTtyOut
    \/ \E tc_ok \in BOOLEAN : TcSetpgrp(tc_ok)
    \/ TcUnblockTtyOut
    \/ TcUnblockInput
    \/ TcDone

SpecTc == InitTc /\ [][NextTc]_vars

(***************************************************************************)
(* Signals: init_signals, delivery to threads, sys_subshell                *)
(***************************************************************************)

\* The signals the host defines.
DefinedSigs == IF platform.sigdanger THEN Sigs ELSE Sigs \ {"SIGDANGER"}

\* An emacs_sigaction_init that would block the keyboard signals in batch
\* mode too.
emacs_sigaction_init_Mutant(handler) ==
    SigAction(handler,
              {"SIGALRM", "SIGCHLD", "SIGWINCH", "SIGINT", "SIGQUIT", "SIGIO"}
              \cup (IF platform.sigdanger THEN {"SIGDANGER"} ELSE {})
              \cup (IF platform.profiler THEN {"SIGPROF"} ELSE {}))

\* emacs_sigaction_init: the mask blocks the nonfatal signals Emacs catches.
emacs_sigaction_init(handler) ==
    SigAction(handler,
              {"SIGALRM", "SIGCHLD", "SIGWINCH"}
              \cup (IF platform.sigdanger THEN {"SIGDANGER"} ELSE {})
              \cup (IF platform.profiler THEN {"SIGPROF"} ELSE {})
              \cup (IF ~noninteractive
                    THEN {"SIGINT", "SIGQUIT", "SIGIO"}
                    ELSE {}))

\* The actions init_signals and init_sigsegv build; sigfillset fills each
\* sa_mask.
process_fatal_action == SigAction("deliver_fatal_signal", DefinedSigs)
thread_fatal_action == SigAction("deliver_fatal_thread_signal", DefinedSigs)
sigsegv_action == SigAction("handle_sigsegv", DefinedSigs)

\* add_user_signal (sig, name), called by init_signals for SIGUSR1 and
\* SIGUSR2: the signal becomes a user signal, an input event.
add_user_signal(d, sig) ==
    [d EXCEPT ![sig] = emacs_sigaction_init("deliver_user_signal")]

\* A maybe_fatal_sig that would never catch the signal.
maybe_fatal_sig_Mutant(d, sig) == d

\* maybe_fatal_sig (sig) applied to the dispositions D.
maybe_fatal_sig(d, sig) ==
    LET catch_sig == IF ~noninteractive
                     THEN TRUE
                     ELSE d[sig].handler # "SIG_IGN"
    IN IF catch_sig THEN [d EXCEPT ![sig] = process_fatal_action] ELSE d

\* The signals for which init_signals, started with the dispositions D0,
\* calls sigaction or signal (init_sigsegv and add_user_signal included).
init_signals_registers(d0) ==
    {s \in {"SIGHUP", "SIGINT"} : maybe_fatal_sig(d0, s) # d0}
    \cup (IF ~noninteractive THEN {"SIGPIPE"} ELSE {})
    \cup {"SIGTERM", "SIGQUIT", "SIGILL", "SIGTRAP", "SIGFPE", "SIGUSR1",
          "SIGUSR2", "SIGABRT", "SIGBUS", "SIGSEGV", "SIGSYS", "SIGPROF",
          "SIGVTALRM", "SIGXCPU", "SIGXFSZ"}
    \cup (IF platform.sigdanger THEN {"SIGDANGER"} ELSE {})

\* The dispositions init_signals leaves, from the dispositions D0.  Only
\* SIGTERM is set twice, so only for it the order of the calls matters.
init_signals_calls(d0) ==
    LET d1 == maybe_fatal_sig(d0, "SIGHUP")
        d2 == maybe_fatal_sig(d1, "SIGINT")
        d3 == maybe_fatal_sig(d2, "SIGTERM")
        d4 == IF ~noninteractive
              THEN [d3 EXCEPT !["SIGPIPE"] = SIG_IGN]
              ELSE d3
        d5 == [d4 EXCEPT !["SIGQUIT"] = process_fatal_action,
                         !["SIGILL"] = thread_fatal_action]
        d6 == [d5 EXCEPT !["SIGFPE"] =
                 IF platform.ieee
                 THEN thread_fatal_action
                 ELSE emacs_sigaction_init("deliver_arith_signal")]
        d7 == [d6 EXCEPT !["SIGSEGV"] =
                 IF platform.sigsegv
                 THEN sigsegv_action
                 ELSE thread_fatal_action]
        d8 == [d7 EXCEPT !["SIGTERM"] = process_fatal_action]
        d9 == [d8 EXCEPT !["SIGTRAP"] = thread_fatal_action,
                         !["SIGABRT"] = thread_fatal_action,
                         !["SIGBUS"] = thread_fatal_action,
                         !["SIGSYS"] = thread_fatal_action]
        d10 == add_user_signal(add_user_signal(d9, "SIGUSR1"), "SIGUSR2")
        d11 == [d10 EXCEPT !["SIGPROF"] = SIG_IGN,
                           !["SIGVTALRM"] = process_fatal_action,
                           !["SIGXCPU"] = process_fatal_action,
                           !["SIGXFSZ"] = process_fatal_action]
        d12 == IF platform.sigdanger
               THEN [d11 EXCEPT !["SIGDANGER"] =
                       emacs_sigaction_init("deliver_danger_signal")]
               ELSE d11
    IN d12

\* The stack of the main thread, which grows down.
LG_STACK_HEURISTIC == 8
stack_bottom == 1536
stack_top == 1024

\* A stack_overflow that would count the address at the far end of the
\* guard area too.
stack_overflow_Mutant(siginfo, recovery, bot, top) ==
    IF ~recovery THEN FALSE
    ELSE IF siginfo.null THEN FALSE
    ELSE IF siginfo.addr = 0 THEN FALSE
    ELSE LET addr == siginfo.addr
         IN IF bot < top
            THEN /\ 0 <= addr - top
                 /\ addr - top <= (top - bot) \div (2 ^ LG_STACK_HEURISTIC)
            ELSE /\ 0 <= top - addr
                 /\ top - addr <= (bot - top) \div (2 ^ LG_STACK_HEURISTIC)

\* stack_overflow (siginfo), with attempt_stack_overflow_recovery RECOVERY.
stack_overflow(siginfo, recovery, bot, top) ==
    IF ~recovery THEN FALSE
    ELSE IF siginfo.null THEN FALSE
    ELSE IF siginfo.addr = 0 THEN FALSE
    ELSE LET addr == siginfo.addr
         IN IF bot < top
            THEN /\ 0 <= addr - top
                 /\ addr - top < (top - bot) \div (2 ^ LG_STACK_HEURISTIC)
            ELSE /\ 0 <= top - addr
                 /\ top - addr < (bot - top) \div (2 ^ LG_STACK_HEURISTIC)

\* The siginfo values a SIGSEGV comes with: none, a null address, addresses
\* at, just past and well past the stack top, and one on the stack.
SegvInfos ==
    {[null |-> TRUE, addr |-> 0]} \cup
    {[null |-> FALSE, addr |-> a] :
        a \in {0, stack_top, stack_top - 1, stack_top - 2, stack_top + 1}}

\* pthread_equal (pthread_self (), main_thread_id) on thread TH.
OnMainThread_Mutant(th) == TRUE
OnMainThread(th) == th = main_thread_id

\* handle_sigsegv's choice between the jump to the command loop and the
\* fatal path, on thread TH with gc_in_progress GC.
handle_sigsegv_Mutant(th, gc, overflow) ==
    IF ~gc /\ overflow THEN "siglongjmp" ELSE "deliver_fatal_thread_signal"
handle_sigsegv(th, gc, overflow) ==
    LET fatal0 == gc
        fatal == IF ~fatal0 /\ ~OnMainThread(th) THEN TRUE ELSE fatal0
    IN IF ~fatal /\ overflow
       THEN "siglongjmp"
       ELSE "deliver_fatal_thread_signal"

\* What deliver_thread_signal does on a non-main thread after pthread_kill.
AfterPthreadKill_Mutant == "handler"
AfterPthreadKill == "sigsuspend"

\* The disposition deliver_thread_signal installs on a non-main thread.
ThreadPathAction_Mutant(sig) == disp[sig]
ThreadPathAction(sig) == process_fatal_action

\* The signals whose dispositions sys_subshell saves.
SubshellSigs == {"SIGINT", "SIGQUIT", "SIGTERM", "SIGIO"}

\* The signals the environment raises, on a thread or on the process.
ArrivingSigs == {"SIGTERM", "SIGILL", "SIGFPE", "SIGSEGV"}

Top(th) == frames[th][Len(frames[th])]
SetTop(th, f) == [frames EXCEPT ![th] = [@ EXCEPT ![Len(@)] = f]]
NewFrame(th, sig) ==
    [sig |-> sig, fn |-> disp[sig].handler, pc |-> "entry",
     saved |-> sigmask[th], log |-> << >>]
AtPc(th, pc) ==
    /\ frames[th] # << >>
    /\ Top(th).pc = pc

SigFrame ==
    UNCHANGED <<ioVars, noninteractive, ttyVars, tcVars, chVars, dcVars, btVars,
                sioVars,
                pureVars,
                ordVars>>

\* init_signals, run once by the main thread before other threads exist.
init_signals ==
    /\ ~sig_inited
    /\ sig_inited' = TRUE
    /\ disp' = init_signals_calls(disp)
    /\ inherited' = disp
    /\ installed' = init_signals_calls(disp)
    /\ UNCHANGED <<platform, frames, sigmask, main_pending, proc, sub_pc,
                   saved_handlers, arrivals, abandoned, body_ran_on, replaced,
                   returns, forwards, jumps, segv>>
    /\ SigFrame

\* The kernel starts the handler of SIG on thread TH.
TakeSignal(th, sig) ==
    /\ frames' = [frames EXCEPT ![th] = Append(@, NewFrame(th, sig))]
    /\ sigmask' = [sigmask EXCEPT ![th] = @ \cup disp[sig].mask \cup {sig}]

\* The environment raises SIG and the kernel picks thread TH, which does not
\* block it; an ignored signal is discarded.
Arrive(th, sig) ==
    /\ sig_inited
    /\ arrivals < MaxArrivals
    /\ sig \notin sigmask[th]
    /\ disp[sig].handler # "SIG_DFL"
    /\ arrivals' = arrivals + 1
    /\ IF disp[sig].handler = "SIG_IGN"
       THEN UNCHANGED <<frames, sigmask>>
       ELSE TakeSignal(th, sig)
    /\ UNCHANGED <<sig_inited, platform, disp, main_pending, proc, sub_pc,
                   saved_handlers, inherited, installed, abandoned,
                   body_ran_on, replaced, returns, forwards, jumps, segv>>
    /\ SigFrame

\* A signal sent with pthread_kill is delivered to the main thread.
DeliverPending(sig) ==
    /\ sig \in main_pending
    /\ sig \notin sigmask[main_thread_id]
    /\ disp[sig].handler # "SIG_DFL"
    /\ main_pending' = main_pending \ {sig}
    /\ IF disp[sig].handler = "SIG_IGN"
       THEN UNCHANGED <<frames, sigmask>>
       ELSE TakeSignal(main_thread_id, sig)
    /\ UNCHANGED <<sig_inited, platform, disp, proc, sub_pc, saved_handlers,
                   arrivals, inherited, installed, abandoned, body_ran_on,
                   replaced, returns, forwards, jumps, segv>>
    /\ SigFrame

\* handle_fatal_signal (sig) on thread TH: terminate_due_to_signal begins.
handle_fatal_signal(th) ==
    /\ body_ran_on' = body_ran_on \cup {th}
    /\ proc' = "terminating"
    /\ frames' = SetTop(th, [Top(th) EXCEPT !.pc = "body"])

\* A non-local exit from the handlers of thread TH to its command loop, with
\* the signal mask MASK; on the main thread it also leaves sys_subshell.
LeaveHandlers(th, cause, mask) ==
    /\ frames' = [frames EXCEPT ![th] = << >>]
    /\ sigmask' = [sigmask EXCEPT ![th] = mask]
    /\ jumps' = jumps \cup {[thread |-> th, cause |-> cause]}
    /\ IF th = main_thread_id
       THEN /\ sub_pc' = "idle"
            /\ abandoned' = (abandoned \/ sub_pc = "saved")
       ELSE UNCHANGED <<sub_pc, abandoned>>

\* deliver_process_signal (sig, handle_fatal_signal) up to its pthread_sigmask.
deliver_process_signal_Mutant(th) ==
    /\ AtPc(th, "entry")
    /\ Top(th).fn = "deliver_fatal_signal"
    /\ IF OnMainThread(th)
       THEN /\ frames' = [frames EXCEPT ![th] = SubSeq(@, 1, Len(@) - 1)]
            /\ sigmask' = [sigmask EXCEPT ![th] = Top(th).saved]
       ELSE /\ sigmask' = [sigmask EXCEPT ![th] = @ \cup {Top(th).sig}]
            /\ frames' = SetTop(th, [Top(th) EXCEPT !.pc = "blocked"])
    /\ UNCHANGED <<body_ran_on, proc>>
    /\ UNCHANGED <<sig_inited, platform, disp, main_pending, sub_pc,
                   saved_handlers, arrivals, inherited, installed, abandoned,
                   replaced, returns, forwards, jumps, segv>>
    /\ SigFrame

deliver_process_signal(th) ==
    /\ AtPc(th, "entry")
    /\ Top(th).fn = "deliver_fatal_signal"
    /\ IF OnMainThread(th)
       THEN handle_fatal_signal(th) /\ UNCHANGED sigmask
       ELSE /\ sigmask' = [sigmask EXCEPT ![th] = @ \cup {Top(th).sig}]
            /\ frames' = SetTop(th, [Top(th) EXCEPT !.pc = "blocked"])
            /\ UNCHANGED <<body_ran_on, proc>>
    /\ UNCHANGED <<sig_inited, platform, disp, main_pending, sub_pc,
                   saved_handlers, arrivals, inherited, installed, abandoned,
                   replaced, returns, forwards, jumps, segv>>
    /\ SigFrame

\* deliver_process_signal on a non-main thread: pthread_kill, then the
\* handler returns and the kernel restores the thread's mask.
ForwardAndReturn(th) ==
    /\ AtPc(th, "blocked")
    /\ main_pending' = main_pending \cup {Top(th).sig}
    /\ forwards' = forwards \cup
         {[from |-> th, sig |-> Top(th).sig, by |-> "deliver_process_signal",
           blocked |-> Top(th).sig \in sigmask[th],
           action |-> disp[Top(th).sig]]}
    /\ returns' = returns \cup
         {[thread |-> th, sig |-> Top(th).sig, fn |-> Top(th).fn]}
    /\ frames' = [frames EXCEPT ![th] = SubSeq(@, 1, Len(@) - 1)]
    /\ sigmask' = [sigmask EXCEPT ![th] = Top(th).saved]
    /\ UNCHANGED <<sig_inited, platform, disp, proc, sub_pc, saved_handlers,
                   arrivals, inherited, installed, abandoned, body_ran_on,
                   replaced, jumps, segv>>
    /\ SigFrame

\* The SIGSEGV handler up to its call of deliver_fatal_thread_signal.
SigsegvHandler(th) ==
    /\ AtPc(th, "entry")
    /\ Top(th).fn = "handle_sigsegv"
    /\ \E gc \in BOOLEAN, siginfo \in SegvInfos, recovery \in BOOLEAN :
         LET overflow ==
                 stack_overflow(siginfo, recovery, stack_bottom, stack_top)
             outcome == handle_sigsegv(th, gc, overflow)
         IN /\ segv' = [set |-> TRUE, gc |-> gc, thread |-> th,
                        overflow |-> overflow, outcome |-> outcome]
            /\ IF outcome = "siglongjmp"
               THEN LeaveHandlers(th, "siglongjmp", frames[th][1].saved)
               ELSE /\ frames' = SetTop(th,
                         [Top(th) EXCEPT
                            !.fn = "deliver_fatal_thread_signal"])
                    /\ UNCHANGED <<sigmask, jumps, sub_pc, abandoned>>
    /\ UNCHANGED <<sig_inited, platform, disp, main_pending, proc,
                   saved_handlers, arrivals, inherited, installed,
                   body_ran_on, replaced, returns, forwards>>
    /\ SigFrame

\* handle_arith_signal (sig) on thread TH: pthread_sigmask (SIG_SETMASK,
\* &empty_mask, 0), then xsignal0 (Qarith_error).
handle_arith_signal_Mutant(th) ==
    /\ LeaveHandlers(th, "arith-error", sigmask[th])
    /\ UNCHANGED <<body_ran_on, proc>>

handle_arith_signal(th) ==
    /\ LeaveHandlers(th, "arith-error", {})
    /\ UNCHANGED <<body_ran_on, proc>>

\* deliver_thread_signal (sig, handler) up to its backtrace call; HANDLER is
\* handle_fatal_signal or handle_arith_signal.
deliver_thread_signal(th) ==
    /\ AtPc(th, "entry")
    /\ Top(th).fn \in {"deliver_fatal_thread_signal", "deliver_arith_signal"}
    /\ IF OnMainThread(th)
       THEN IF Top(th).fn = "deliver_arith_signal"
            THEN handle_arith_signal(th)
            ELSE /\ handle_fatal_signal(th)
                 /\ UNCHANGED <<sigmask, jumps, sub_pc, abandoned>>
       ELSE /\ frames' = SetTop(th, [Top(th) EXCEPT
                                       !.pc = "backtrace",
                                       !.log = Append(@, "backtrace")])
            /\ UNCHANGED <<sigmask, jumps, sub_pc, abandoned, body_ran_on,
                           proc>>
    /\ UNCHANGED <<sig_inited, platform, disp, main_pending, saved_handlers,
                   arrivals, inherited, installed, replaced, returns,
                   forwards, segv>>
    /\ SigFrame

\* deliver_thread_signal on a non-main thread: sigaction.
ThreadSigaction(th) ==
    /\ AtPc(th, "backtrace")
    /\ disp' = [disp EXCEPT ![Top(th).sig] = ThreadPathAction(Top(th).sig)]
    /\ replaced' = replaced \cup {Top(th).sig}
    /\ frames' = SetTop(th, [Top(th) EXCEPT !.pc = "sigaction",
                                            !.log = Append(@, "sigaction")])
    /\ UNCHANGED <<sig_inited, platform, sigmask, main_pending, proc, sub_pc,
                   saved_handlers, arrivals, inherited, installed, abandoned,
                   body_ran_on, returns, forwards, jumps, segv>>
    /\ SigFrame

\* deliver_thread_signal on a non-main thread: pthread_kill, then the
\* sigsuspend loop, in which no signal is blocked.
ThreadKill(th) ==
    /\ AtPc(th, "sigaction")
    /\ main_pending' = main_pending \cup {Top(th).sig}
    /\ forwards' = forwards \cup
         {[from |-> th, sig |-> Top(th).sig, by |-> "deliver_thread_signal",
           blocked |-> Top(th).sig \in sigmask[th],
           action |-> disp[Top(th).sig]]}
    /\ IF AfterPthreadKill = "sigsuspend"
       THEN /\ frames' = SetTop(th, [Top(th) EXCEPT
                                       !.pc = "sigsuspend",
                                       !.log = Append(@, "pthread_kill")])
            /\ sigmask' = [sigmask EXCEPT ![th] = {}]
            /\ UNCHANGED <<body_ran_on, proc>>
       ELSE /\ body_ran_on' = body_ran_on \cup {th}
            /\ proc' = "terminating"
            /\ frames' = SetTop(th, [Top(th) EXCEPT
                                       !.pc = "body",
                                       !.log = Append(@, "pthread_kill")])
            /\ UNCHANGED sigmask
    /\ UNCHANGED <<sig_inited, platform, disp, sub_pc, saved_handlers,
                   arrivals, inherited, installed, abandoned, replaced,
                   returns, jumps, segv>>
    /\ SigFrame

\* The main thread runs sys_subshell when it is in no handler.
MainRuns ==
    /\ sig_inited
    /\ proc = "running"
    /\ frames[main_thread_id] = << >>

SubshellFrame ==
    UNCHANGED <<sig_inited, platform, frames, sigmask, main_pending, proc,
                arrivals, inherited, installed, abandoned, body_ran_on,
                replaced, returns, forwards, jumps, segv>>

\* sys_subshell: VFORK; a failed fork raises an error.
SubshellFork(fork_ok) ==
    /\ MainRuns /\ sub_pc = "idle"
    /\ sub_pc' = IF fork_ok THEN "forked" ELSE "idle"
    /\ UNCHANGED <<disp, saved_handlers>>
    /\ SubshellFrame /\ SigFrame

\* restore_signal_handlers: the dispositions D with the saved ones put back.
RestoredHandlers_Mutant(d, saved) == d
RestoredHandlers(d, saved) ==
    [s \in Sigs |-> IF s \in SubshellSigs THEN saved[s] ELSE d[s]]

\* A sys_subshell that would go on to wait with the dispositions as they
\* were.
save_signal_handlers_Mutant ==
    /\ MainRuns /\ sub_pc = "forked"
    /\ saved_handlers' = [s \in SubshellSigs |-> disp[s]]
    /\ sub_pc' = "saved"
    /\ UNCHANGED disp
    /\ SubshellFrame /\ SigFrame

\* sys_subshell in the parent: save_signal_handlers.
save_signal_handlers ==
    /\ MainRuns /\ sub_pc = "forked"
    /\ saved_handlers' = [s \in SubshellSigs |-> disp[s]]
    /\ disp' = [s \in Sigs |->
                  IF s \in SubshellSigs
                  THEN emacs_sigaction_init("SIG_IGN")
                  ELSE disp[s]]
    /\ sub_pc' = "saved"
    /\ SubshellFrame /\ SigFrame

\* sys_subshell in the parent: wait_for_termination returns, then
\* restore_signal_handlers.
restore_signal_handlers ==
    /\ MainRuns /\ sub_pc = "saved"
    /\ disp' = RestoredHandlers(disp, saved_handlers)
    /\ sub_pc' = "idle"
    /\ saved_handlers' = << >>
    /\ SubshellFrame /\ SigFrame

\* Emacs starts interactive or in batch mode, with some of SIGHUP, SIGINT
\* and SIGTERM inherited as ignored.
InheritedIgnored ==
    {{}, {"SIGTERM"}, {"SIGHUP", "SIGINT", "SIGTERM"}}

InitSig ==
    /\ BtQuiet
    /\ OrdQuiet
    /\ SioQuiet
    /\ noninteractive \in BOOLEAN
    /\ \E ignored \in InheritedIgnored, plat \in Platforms :
          SigStart(ignored, plat)
    /\ IoStart
    /\ TtyQuiet
    /\ TcQuiet
    /\ ChQuiet
    /\ DiscardQuiet
    /\ PureQuiet

NextSig ==
    \/ init_signals
    \/ \E th \in Threads, sig \in ArrivingSigs : Arrive(th, sig)
    \/ \E sig \in Sigs : DeliverPending(sig)
    \/ \E th \in Threads : deliver_process_signal(th)
    \/ \E th \in Threads : ForwardAndReturn(th)
    \/ \E th \in Threads : SigsegvHandler(th)
    \/ \E th \in Threads : deliver_thread_signal(th)
    \/ \E th \in Threads : ThreadSigaction(th)
    \/ \E th \in Threads : ThreadKill(th)
    \/ \E fork_ok \in BOOLEAN : SubshellFork(fork_ok)
    \/ save_signal_handlers
    \/ restore_signal_handlers

SpecSig == InitSig /\ [][NextSig]_vars

\* The main thread is scheduled fairly: the kernel delivers to it a pending
\* signal it does not block, and a handler it has entered goes on.
MainThreadSteps ==
    \/ deliver_process_signal(main_thread_id)
    \/ SigsegvHandler(main_thread_id)
    \/ deliver_thread_signal(main_thread_id)

\* Emacs started interactively with no signal inherited as ignored, so that
\* init_signals gives every fatal signal its handler.
InitLive ==
    /\ BtQuiet
    /\ OrdQuiet
    /\ SioQuiet
    /\ InitSig
    /\ ~noninteractive
    /\ \A s \in Sigs : disp[s] = SIG_DFL

LiveSig ==
    /\ InitLive
    /\ [][NextSig]_vars
    /\ WF_vars(\E sig \in Sigs : DeliverPending(sig))
    /\ WF_vars(MainThreadSteps)

(***************************************************************************)
(* stack_overflow applied to drawn stacks and fault addresses              *)
(***************************************************************************)

\* How far from the known stack top the drawn fault addresses lie.
MaxDist == 4

\* The sizes of the known stack: empty, around the 256 bytes from which the
\* guard area is not empty, and two and three guard bytes' worth.
StackExtents == {0, 255, 256, 257, 512, 768}

\* The known stack as (bot, top): one end at address stack_top, growing up
\* or down.
Stacks ==
    {[bot |-> stack_top, top |-> stack_top + e] : e \in StackExtents}
    \cup {[bot |-> stack_top + e, top |-> stack_top] : e \in StackExtents}

\* The siginfo a SIGSEGV comes with: none, a null address, the addresses
\* around the top of stack ST, and the address in the middle of it.
StackSiginfos(st) ==
    {[null |-> TRUE, addr |-> 0]} \cup
    {[null |-> FALSE, addr |-> a] :
        a \in {0, (st.bot + st.top) \div 2}
              \cup {st.top + k : k \in (0 - MaxDist)..MaxDist}}

StackOverflowCall ==
    /\ pure_fn = "none"
    /\ pure_fn' = "stack_overflow"
    /\ pure_result' =
         [ret |-> stack_overflow(pure_args.siginfo, pure_args.recovery,
                                 pure_args.bot, pure_args.top)]
    /\ UNCHANGED pure_args
    /\ UNCHANGED <<ioVars, noninteractive, ttyVars, sigVars, tcVars, chVars,
                   dcVars, btVars, sioVars,
                ordVars>>

InitStack ==
    /\ BtQuiet
    /\ OrdQuiet
    /\ SioQuiet
    /\ noninteractive = FALSE
    /\ \E recovery \in BOOLEAN, st \in Stacks :
          \E siginfo \in StackSiginfos(st) :
             PureStart([siginfo |-> siginfo, recovery |-> recovery,
                        bot |-> st.bot, top |-> st.top])
    /\ IoStart
    /\ TtyQuiet
    /\ SigQuiet
    /\ TcQuiet
    /\ ChQuiet
    /\ DiscardQuiet

NextStack == StackOverflowCall

SpecStack == InitStack /\ [][NextStack]_vars

(***************************************************************************)
(* Waiting for a child: get_child_status and its callers                   *)
(***************************************************************************)

\* The process ids of the children Emacs has.
ChildPids == {1, 2}

\* What waitpid (PID, STATUS, OPTIONS) can answer: the child changed state;
\* with WNOHANG, 0 when it did not (without, the call blocks until it does);
\* a failure.  A nonpositive PID stands for any child.
WaitpidOutcomes(pid, options) ==
    {Ok(p) : p \in (IF pid > 0 THEN {pid} ELSE ChildPids)}
    \cup (IF "WNOHANG" \in options THEN {Ok(0)} ELSE {})
    \cup {Fail(e) : e \in {"EINTR", "ECHILD"}}

\* get_child_status: "if (errno != EINTR) return pid;" after a failed waitpid.
WaitFails_Mutant(out) == TRUE
WaitFails(out) == out.errno # "EINTR"

\* get_child_status: "if (pid && status && input_available_clear_time)".
ClearsTime_Mutant(pid, status, clear) == pid # 0 /\ ~clear.null
ClearsTime(pid, status, clear) == pid # 0 /\ status /\ ~clear.null

\* child_status_changed passes WNOHANG | options.
ChangedOptions_Mutant(options) == options
ChangedOptions(options) == {"WNOHANG"} \cup options

\* sys_subshell: "if (pid < 0) error (...)" after the fork.
ForkFailed_Mutant(pid) == FALSE
ForkFailed(pid) == pid < 0

\* wait_for_termination returns "0 <= get_child_status (...)"; sys_subshell
\* waits through it, child_status_changed does not.
ViaWaitForTermination(fn) == fn \in {"wait_for_termination", "sys_subshell"}

ChFrame ==
    UNCHANGED <<io_fn, io_pc, io_nbyte, io_arg, io_written, io_buf, io_wrote,
                io_result,
                io_errno, io_req, io_hist, io_eintr, io_quit_checks,
                io_sig_runs, pending_signals, noninteractive, ttyVars,
                tcVars, dcVars, btVars, sioVars, pureVars,
                ordVars>>

\* get_child_status is entered with these arguments.
ChEnter(fn, child, status, options, interruptible) ==
    /\ ch_fn' = fn
    /\ ch_pc' = "loop"
    /\ ch_child' = child
    /\ ch_status' = status
    /\ ch_options' = options
    /\ ch_interruptible' = interruptible
    /\ ch_clear_entry' = input_available_clear_time
    /\ UNCHANGED <<ch_result, ch_wait_ok, ch_errno,
                   input_available_clear_time, ch_calls, ch_quit_checks,
                   quit_flag>>

\* A caller waits for its child CHILD (> 0, as get_child_status asserts).
wait_for_termination(child, status, interruptible) ==
    /\ ch_pc = "idle" /\ io_pc = "idle"
    /\ child > 0
    /\ ChEnter("wait_for_termination", child, status, {}, interruptible)
    /\ UNCHANGED sigVars
    /\ ChFrame

\* A caller polls its child CHILD (> 0, as get_child_status asserts).
child_status_changed(child, status, options) ==
    /\ ch_pc = "idle" /\ io_pc = "idle"
    /\ child > 0
    /\ ChEnter("child_status_changed", child, status,
               ChangedOptions(options), FALSE)
    /\ UNCHANGED sigVars
    /\ ChFrame

\* sys_subshell up to its wait: the fork answers PID.  A failed fork raises
\* an error; the child (PID = 0) runs the shell or exits and never comes
\* back; the parent saves the dispositions of SubshellSigs, ignores them,
\* and calls wait_for_termination (pid, &status, 0).
sys_subshell(pid) ==
    /\ ch_pc = "idle" /\ io_pc = "idle" /\ sub_pc = "idle"
    /\ IF ForkFailed(pid)
       THEN /\ ch_fn' = "sys_subshell"
            /\ ch_pc' = "error"
            /\ UNCHANGED <<ch_child, ch_status, ch_options, ch_interruptible,
                           ch_result, ch_wait_ok, ch_errno,
                           input_available_clear_time, ch_calls,
                           ch_quit_checks, ch_clear_entry, quit_flag>>
            /\ UNCHANGED <<disp, saved_handlers, sub_pc>>
       ELSE IF pid = 0
       THEN /\ ch_fn' = "sys_subshell"
            /\ ch_pc' = "child"
            /\ UNCHANGED <<ch_child, ch_status, ch_options, ch_interruptible,
                           ch_result, ch_wait_ok, ch_errno,
                           input_available_clear_time, ch_calls,
                           ch_quit_checks, ch_clear_entry, quit_flag>>
            /\ UNCHANGED <<disp, saved_handlers, sub_pc>>
       ELSE /\ saved_handlers' = [s \in SubshellSigs |-> disp[s]]
            /\ disp' = [s \in Sigs |->
                          IF s \in SubshellSigs
                          THEN emacs_sigaction_init("SIG_IGN")
                          ELSE disp[s]]
            /\ sub_pc' = "saved"
            /\ ChEnter("sys_subshell", pid, TRUE, {}, FALSE)
    /\ SubshellFrame
    /\ ChFrame

\* One iteration of get_child_status's loop and, when the loop ends, the
\* rest of get_child_status and of its caller.
get_child_status(out) ==
    /\ ch_pc = "loop"
    /\ Len(ch_calls) < MaxWaits
    /\ IF ch_interruptible /\ MaybeQuitExits
       THEN /\ ch_pc' = "quit"
            /\ quit_flag' = FALSE
            /\ ch_quit_checks' = ch_quit_checks + 1
            /\ UNCHANGED <<ch_result, ch_wait_ok, ch_errno,
                           input_available_clear_time, ch_calls>>
       ELSE /\ out \in WaitpidOutcomes(ch_child, ch_options)
            /\ ch_quit_checks' =
                 ch_quit_checks + (IF ch_interruptible THEN 1 ELSE 0)
            /\ ch_calls' = Append(ch_calls, [pid |-> ch_child,
                                             options |-> ch_options,
                                             out |-> out])
            /\ IF 0 <= out.ret
               THEN /\ ch_pc' = "returned"
                    /\ ch_result' = out.ret
                    /\ ch_wait_ok' = (ViaWaitForTermination(ch_fn)
                                       /\ 0 <= out.ret)
                    /\ input_available_clear_time' =
                         IF ClearsTime(out.ret, ch_status,
                                       input_available_clear_time)
                         THEN ClearTime(FALSE, 0)
                         ELSE input_available_clear_time
                    /\ UNCHANGED ch_errno
               ELSE IF WaitFails(out)
               THEN /\ ch_pc' = "returned"
                    /\ ch_result' = out.ret
                    /\ ch_wait_ok' = (ViaWaitForTermination(ch_fn)
                                       /\ 0 <= out.ret)
                    /\ ch_errno' = out.errno
                    /\ UNCHANGED input_available_clear_time
               ELSE /\ ch_errno' = out.errno
                    /\ UNCHANGED <<ch_pc, ch_result, ch_wait_ok,
                                   input_available_clear_time>>
            /\ UNCHANGED quit_flag
    /\ UNCHANGED <<ch_fn, ch_child, ch_status, ch_options, ch_interruptible,
                   ch_clear_entry>>
    /\ UNCHANGED sigVars
    /\ ChFrame

\* The caller goes on (or the quit or the error unwinds); sys_subshell
\* first restores the dispositions it saved.  The forked child never comes
\* back.
ChDone ==
    /\ ch_pc \in {"returned", "quit", "error"}
    /\ ch_fn' = "idle" /\ ch_pc' = "idle"
    /\ ch_child' = 0
    /\ ch_status' = FALSE
    /\ ch_options' = {}
    /\ ch_interruptible' = FALSE
    /\ ch_result' = 0
    /\ ch_wait_ok' = FALSE
    /\ ch_errno' = "none"
    /\ ch_calls' = << >>
    /\ ch_quit_checks' = 0
    /\ ch_clear_entry' = input_available_clear_time
    /\ UNCHANGED <<input_available_clear_time, quit_flag>>
    /\ IF ch_fn = "sys_subshell" /\ ch_pc = "returned"
       THEN /\ disp' = RestoredHandlers(disp, saved_handlers)
            /\ sub_pc' = "idle"
            /\ saved_handlers' = << >>
       ELSE UNCHANGED <<disp, saved_handlers, sub_pc>>
    /\ SubshellFrame
    /\ ChFrame

\* input_available_clear_time starts null, or aimed at a zero or a nonzero
\* timestamp.
InitChild ==
    /\ BtQuiet
    /\ OrdQuiet
    /\ SioQuiet
    /\ noninteractive = FALSE
    /\ \E clear \in {ClearTime(TRUE, 0), ClearTime(FALSE, 0),
                     ClearTime(FALSE, 1)} : ChStart(clear)
    /\ IoStart
    /\ TtyQuiet
    /\ SigQuiet
    /\ TcQuiet
    /\ DiscardQuiet
    /\ PureQuiet

NextChild ==
    \/ \E child \in ChildPids, status \in BOOLEAN, intr \in BOOLEAN :
          wait_for_termination(child, status, intr)
    \/ \E child \in ChildPids, status \in BOOLEAN,
          options \in SUBSET {"WUNTRACED"} :
          child_status_changed(child, status, options)
    \/ \E pid \in {-1, 0} \cup ChildPids : sys_subshell(pid)
    \/ \E out \in WaitpidOutcomes(0, {"WNOHANG"}) : get_child_status(out)
    \/ ChDone
    \/ RequestQuit

SpecChild == InitChild /\ [][NextChild]_vars

\* The signal part when init_signals has returned, on host PLAT, in a
\* process that inherited the signals of IGNORED as SIG_IGN.
SigInited(ignored, plat) ==
    LET d0 == [s \in Sigs |-> IF s \in ignored THEN SIG_IGN ELSE SIG_DFL]
    IN /\ sig_inited = TRUE
       /\ platform = plat
       /\ disp = init_signals_calls(d0)
       /\ inherited = d0
       /\ installed = init_signals_calls(d0)
       /\ frames = [th \in Threads |-> << >>]
       /\ sigmask = [th \in Threads |-> {}]
       /\ main_pending = {}
       /\ proc = "running"
       /\ sub_pc = "idle"
       /\ saved_handlers = << >>
       /\ arrivals = 0
       /\ abandoned = FALSE
       /\ body_ran_on = {}
       /\ replaced = {}
       /\ returns = {}
       /\ forwards = {}
       /\ jumps = {}
       /\ segv = NoSegv

\* Emacs runs interactive or in batch mode on either host, init_signals
\* has returned, and nothing waits for a child yet.
InitSubshell ==
    /\ BtQuiet
    /\ OrdQuiet
    /\ SioQuiet
    /\ noninteractive \in BOOLEAN
    /\ \E ignored \in InheritedIgnored, plat \in Platforms :
          SigInited(ignored, plat)
    /\ ChStart(ClearTime(TRUE, 0))
    /\ IoStart
    /\ TtyQuiet
    /\ TcQuiet
    /\ DiscardQuiet
    /\ PureQuiet

SpecSubshell == InitSubshell /\ [][NextChild]_vars

\* C2: terminal-mode round trip.  When init_sys_modes has put a non-suspended
\* terminal into editing mode and reset_sys_modes follows, the attributes the
\* terminal holds equal, field for field, those it held right before
\* init_sys_modes, provided the tcgetattr of init_sys_modes succeeded and the
\* emacs_set_tty of reset_sys_modes read back what it set.
C2_ModeRoundTrip ==
    \A t \in Ttys :
        (seq[t].phase = "init_reset" /\ seq[t].ok) =>
            /\ termios[t].iflag = pre_init[t].iflag
            /\ termios[t].oflag = pre_init[t].oflag
            /\ termios[t].cflag = pre_init[t].cflag
            /\ termios[t].lflag = pre_init[t].lflag
            /\ termios[t].c_cc = pre_init[t].c_cc

\* C2 witness: a round trip on terminal 1 through an editing mode that
\* differs from the original mode in every flag word and in c_cc, with flow
\* control and the meta key on.
C2_Witness ==
    /\ seq[1].phase = "init_reset" /\ seq[1].ok
    /\ ttys[1].flow_control /\ ttys[1].meta_key
    /\ LET e == EditingMode(1, pre_init[1])
       IN /\ e.iflag # pre_init[1].iflag /\ e.oflag # pre_init[1].oflag
          /\ e.cflag # pre_init[1].cflag /\ e.lflag # pre_init[1].lflag
          /\ e.c_cc # pre_init[1].c_cc
    /\ termios[1] = pre_init[1]

\* C3: a thread-fatal signal handled on a thread other than the main thread.
\* deliver_thread_signal saves the backtrace, then replaces the signal's
\* disposition with process_fatal_action, then sends the signal to the main
\* thread, in this order, and then stays in its sigsuspend loop: on that
\* thread handle_fatal_signal never runs and the handler never returns.
C3_ThreadFatalSuspends ==
    /\ [](\A th \in Threads \ {main_thread_id} :
            /\ th \notin body_ran_on
            /\ \A r \in returns :
                 r.thread = th => r.fn = "deliver_fatal_signal"
            /\ \A i \in DOMAIN frames[th] :
                 LET f == frames[th][i] IN
                 f.fn \in {"deliver_fatal_thread_signal", "handle_sigsegv",
                           "deliver_arith_signal"} =>
                   /\ f.pc \in {"entry", "backtrace", "sigaction",
                                "sigsuspend"}
                   /\ f.pc = "entry" => f.log = << >>
                   /\ f.pc = "backtrace" => f.log = <<"backtrace">>
                   /\ f.pc = "sigaction" =>
                        /\ f.log = <<"backtrace", "sigaction">>
                        /\ disp[f.sig] = process_fatal_action
                   /\ f.pc = "sigsuspend" =>
                        /\ f.log = <<"backtrace", "sigaction", "pthread_kill">>
                        /\ [from |-> th, sig |-> f.sig,
                            by |-> "deliver_thread_signal", blocked |-> TRUE,
                            action |-> process_fatal_action] \in forwards)
    /\ [][\A th \in Threads \ {main_thread_id} :
            \A i \in DOMAIN frames[th] :
               frames[th][i].pc = "sigsuspend" =>
                  /\ Len(frames'[th]) >= i
                  /\ frames'[th][i] = frames[th][i]]_vars

\* C3 witness: SIGILL was taken on thread t1, which is suspended; a later
\* SIGTERM taken on t1 during the suspension has returned, and the forwarded
\* SIGILL has reached handle_fatal_signal on the main thread.
C3_Witness ==
    /\ Len(frames["t1"]) = 1
    /\ frames["t1"][1].sig = "SIGILL"
    /\ frames["t1"][1].pc = "sigsuspend"
    /\ [thread |-> "t1", sig |-> "SIGTERM", fn |-> "deliver_fatal_signal"]
          \in returns
    /\ body_ran_on = {main_thread_id}
    /\ frames[main_thread_id] # << >>
    /\ Top(main_thread_id).sig = "SIGILL"

\* C4: in every interleaving handle_fatal_signal runs on the main thread
\* only.  A process-fatal signal taken on another thread is blocked in that
\* thread and sent to the main thread with pthread_kill, and its handler
\* returns without running handle_fatal_signal there; the main thread
\* forwards nothing.
C4_FatalBodyOnMainOnly ==
    /\ body_ran_on \subseteq {main_thread_id}
    /\ \A fw \in forwards :
         /\ fw.from # main_thread_id
         /\ fw.by = "deliver_process_signal" => fw.blocked
    /\ \A r \in returns :
         /\ r.thread # main_thread_id
         /\ \E fw \in forwards :
              /\ fw.from = r.thread /\ fw.sig = r.sig
              /\ fw.by = "deliver_process_signal"
    /\ \A th \in Threads \ {main_thread_id} :
         \A i \in DOMAIN frames[th] :
            LET f == frames[th][i] IN
            f.fn = "deliver_fatal_signal" =>
               /\ f.pc \in {"entry", "blocked"}
               /\ f.pc = "blocked" => f.sig \in sigmask[th]

\* C4 witness: SIGTERM was taken on thread t1, blocked there and forwarded,
\* its handler on t1 has returned, and handle_fatal_signal runs for it on the
\* main thread.
C4_Witness ==
    /\ [thread |-> "t1", sig |-> "SIGTERM", fn |-> "deliver_fatal_signal"]
          \in returns
    /\ frames["t1"] = << >>
    /\ body_ran_on = {main_thread_id}
    /\ frames[main_thread_id] # << >>
    /\ Top(main_thread_id).sig = "SIGTERM"
    /\ Top(main_thread_id).pc = "body"
    /\ arrivals = 1

\* C5: handle_sigsegv jumps to the command loop exactly when no garbage
\* collection is in progress, the faulting thread is the main thread and
\* stack_overflow reports an overflow; otherwise it calls
\* deliver_fatal_thread_signal and makes no jump.
C5_SigsegvOutcome ==
    /\ segv.set =>
         /\ segv.outcome = "siglongjmp" <=>
              (~segv.gc /\ segv.thread = main_thread_id /\ segv.overflow)
         /\ segv.outcome # "siglongjmp" =>
              segv.outcome = "deliver_fatal_thread_signal"
         /\ segv.outcome = "siglongjmp" =>
              [thread |-> segv.thread, cause |-> "siglongjmp"] \in jumps
    /\ \A j \in jumps :
         j.cause = "siglongjmp" =>
            /\ j.thread = main_thread_id
            /\ segv.set

\* C5 witness: a SIGSEGV on the main thread was recovered from with a jump
\* to the command loop, and a later one on the main thread, during a garbage
\* collection or away from the stack top, went the fatal way.
C5_Witness ==
    /\ [thread |-> main_thread_id, cause |-> "siglongjmp"] \in jumps
    /\ segv.set /\ segv.thread = main_thread_id
    /\ segv.outcome = "deliver_fatal_thread_signal"
    /\ body_ran_on = {main_thread_id}

\* C6 as claimed: init_signals installs process_fatal_action for SIGHUP,
\* SIGINT and SIGTERM only if Emacs is interactive or the signal was not
\* inherited as SIG_IGN; in batch mode a signal inherited as ignored is still
\* ignored when init_signals returns.
C6_Original ==
    sig_inited =>
        \A s \in {"SIGHUP", "SIGINT", "SIGTERM"} :
           /\ installed[s] = process_fatal_action =>
                (~noninteractive \/ inherited[s].handler # "SIG_IGN")
           /\ (noninteractive /\ inherited[s].handler = "SIG_IGN") =>
                installed[s].handler = "SIG_IGN"

\* C7 as claimed: after init_signals, every disposition is the one
\* init_signals installed, except in sys_subshell between its save and its
\* restore.
C7_Original ==
    (sig_inited /\ sub_pc # "saved") => disp = installed

\* C7 as amended: after init_signals, every disposition is the one
\* init_signals installed, except that (1) SIGINT, SIGQUIT, SIGTERM and SIGIO
\* are ignored from sys_subshell's save to its restore, and may stay ignored
\* once a non-local exit from a signal handler has left sys_subshell between
\* the two; (2) a signal that deliver_thread_signal handled on a thread other
\* than the main thread has process_fatal_action from then on.
C7_DispositionsStable ==
    sig_inited =>
        \A s \in Sigs :
           IF s \in SubshellSigs
           THEN /\ sub_pc = "saved" =>
                     disp[s] = emacs_sigaction_init("SIG_IGN")
                /\ (sub_pc # "saved" /\ ~abandoned) => disp[s] = installed[s]
                /\ disp[s] \in {installed[s], emacs_sigaction_init("SIG_IGN")}
                /\ s \notin replaced
           ELSE /\ disp[s] = IF s \in replaced
                             THEN process_fatal_action
                             ELSE installed[s]
                /\ s \in replaced =>
                     installed[s].handler \in
                        {"deliver_fatal_thread_signal", "handle_sigsegv",
                         "deliver_arith_signal"}

\* C7 witness: sys_subshell is between its save and its restore, with
\* SIGTERM ignored, after deliver_thread_signal replaced the disposition of
\* SIGILL on thread t1.
C7_Witness ==
    /\ sig_inited /\ sub_pc = "saved"
    /\ installed["SIGTERM"] = process_fatal_action
    /\ disp["SIGTERM"].handler = "SIG_IGN"
    /\ installed["SIGILL"] = thread_fatal_action
    /\ disp["SIGILL"] = process_fatal_action
    /\ frames["t1"] # << >> /\ frames["t1"][1].pc = "sigsuspend"

C9_NarrowWiden ==
    (last.acted /\ inherited_pgroup # 0) =>
        /\ (last.setpgid = "ok" /\ last.tcsetpgrp = "ok") =>
              LET g == IF last.op = "init_sys_modes"
                       THEN MyPid ELSE inherited_pgroup
              IN emacs_pgrp = g /\ tty_fg = g
        /\ last.setpgid = "fail" =>
              /\ last.tcsetpgrp = "none"
              /\ tty_fg = last.pre_fg
              /\ emacs_pgrp = last.pre_pgrp

\* C9 witness: a widen that follows a narrow has set both groups back from
\* Emacs's pid to inherited_pgroup.
C9_Witness ==
    /\ last.op = "reset_sys_modes" /\ last.acted
    /\ last.setpgid = "ok" /\ last.tcsetpgrp = "ok"
    /\ last.pre_pgrp = MyPid /\ last.pre_fg = MyPid
    /\ inherited_pgroup # 0
    /\ emacs_pgrp = inherited_pgroup /\ tty_fg = inherited_pgroup

\* C10: when init_foreground_group recorded inherited_pgroup = 0, no narrow
\* and no widen makes a setpgid or tcsetpgrp call or changes a process group,
\* whatever the number and order of the calls.
C10_NoOpWhenLeader ==
    (fg_initted /\ inherited_pgroup = 0) =>
        /\ last.setpgid = "none" /\ last.tcsetpgrp = "none"
        /\ emacs_pgrp = MyPid /\ tty_fg = MyPid
        /\ ~narrowed /\ ~narrow_open /\ ~unmatched

\* C10 witness: with inherited_pgroup = 0, init_sys_modes has narrowed twice
\* in a row (once per terminal) and a reset_sys_modes has widened since.
C10_Witness ==
    /\ fg_initted /\ inherited_pgroup = 0
    /\ seq[1].phase = "init" /\ seq[2].phase = "init_reset"
    /\ last.op = "init_sys_modes" /\ last.tty = 1 /\ last.acted
    /\ ttys[2].term_initted

\* C11: tcsetpgrp_without_stopping keeps SIGTTOU blocked while tcsetpgrp
\* runs, and when it returns the calling thread's signal mask is exactly the
\* mask it had on entry (SIGTTOU blocked if and only if it was blocked
\* before) and the block_input nesting depth is the one on entry; the
\* tcsetpgrp call itself runs one level deeper inside block_input.
C11_MaskRestored ==
    /\ tc_pc = "unblock_tty_out_signal" =>
          /\ "SIGTTOU" \in tc_at_call.mask
          /\ tc_at_call.depth = tc_entry.depth + 1
    /\ tc_pc = "returned" =>
          /\ "SIGTTOU" \in tc_at_call.mask
          /\ thread_mask = tc_entry.mask
          /\ interrupt_input_blocked = tc_entry.depth

\* C11 witness: the thread entered with SIGTTOU already blocked, inside
\* block_input; tcsetpgrp moved the foreground group away from Emacs (the
\* case in which an unblocked SIGTTOU would stop it), and the call returned.
C11_Witness ==
    /\ tc_pc = "returned"
    /\ "SIGTTOU" \in tc_entry.mask
    /\ tc_entry.depth = 1
    /\ tty_fg = tc_args.pgid /\ tty_fg # emacs_pgrp

\* The waitpid calls of the wait in progress, and the latest of them.
EintrCall(c) == c.out.ret < 0 /\ c.out.errno = "EINTR"
LastCall == ch_calls[Len(ch_calls)]

\* C12: wait_for_termination returns false exactly when waitpid returned a
\* negative value with errno other than EINTR.  Interruptible or not, a
\* waitpid failure with EINTR is always retried and never reported (every
\* waitpid call but the last of a wait failed with EINTR, and the last did
\* not), so a failure with another errno is reported after that one attempt,
\* with that errno.
C12_WaitFalseIffRealFailure ==
    /\ (ch_fn = "wait_for_termination" /\ ch_pc = "loop") =>
          \A i \in 1..Len(ch_calls) : EintrCall(ch_calls[i])
    /\ (ch_fn = "wait_for_termination" /\ ch_pc = "returned") =>
          /\ Len(ch_calls) >= 1
          /\ \A i \in 1..(Len(ch_calls) - 1) : EintrCall(ch_calls[i])
          /\ ~EintrCall(LastCall)
          /\ ch_wait_ok = ~(LastCall.out.ret < 0)
          /\ ~ch_wait_ok => (ch_errno = LastCall.out.errno
                               /\ ch_errno # "EINTR")

\* C12 witness: an uninterruptible wait_for_termination returned false: its
\* waitpid failed twice with EINTR and then with ECHILD.
C12_Witness ==
    /\ ch_fn = "wait_for_termination" /\ ch_pc = "returned"
    /\ ~ch_interruptible
    /\ Len(ch_calls) = 3
    /\ ~ch_wait_ok /\ ch_errno = "ECHILD"

\* C13: child_status_changed passes WNOHANG to every waitpid it makes,
\* whatever options the caller gave, so it never blocks; it returns 0 when
\* the child's status has not changed, the child's pid when it has, and a
\* negative value when waitpid failed with an errno other than EINTR.
C13_PollNeverBlocks ==
    ch_fn = "child_status_changed" =>
        /\ \A i \in 1..Len(ch_calls) : "WNOHANG" \in ch_calls[i].options
        /\ ch_pc = "returned" =>
              /\ Len(ch_calls) >= 1
              /\ ch_result = LastCall.out.ret
              /\ \/ ch_result = 0
                 \/ ch_result = ch_child
                 \/ ch_result < 0 /\ ch_errno # "EINTR"

\* C13 witness: child_status_changed, called with another option, returned 0
\* after a waitpid that failed with EINTR and one that found no change.
C13_Witness ==
    /\ ch_fn = "child_status_changed" /\ ch_pc = "returned"
    /\ "WUNTRACED" \in ch_options
    /\ Len(ch_calls) = 2
    /\ ch_result = 0

\* C14: every waitpid call is made with the caller's child pid, which is
\* strictly positive, never with 0 or a negative pid.  sys_subshell reaches
\* its wait only in the parent, with the pid the fork returned: after a
\* failed fork (error raised) and in the forked child no waitpid call is
\* made.
C14_WaitpidOnlyOwnChild ==
    /\ \A i \in 1..Len(ch_calls) :
          ch_calls[i].pid = ch_child /\ ch_calls[i].pid > 0
    /\ ch_pc = "loop" => ch_child > 0
    /\ ch_pc \in {"error", "child"} =>
          (ch_fn = "sys_subshell" /\ ch_calls = << >>)

\* C14 witness: sys_subshell in the parent has waited for the child the fork
\* returned, through a waitpid that failed with EINTR.
C14_Witness ==
    /\ ch_fn = "sys_subshell" /\ ch_pc = "returned"
    /\ sub_pc = "saved"
    /\ Len(ch_calls) = 2
    /\ ch_result = ch_child

\* C15: get_child_status sets *input_available_clear_time to the zero
\* timestamp exactly when waitpid returned a positive pid and STATUS is
\* non-null; when the result is 0 or negative, or STATUS is null, the
\* timestamp is what it was on entry, and it is untouched while the loop
\* runs.  (When the pointer itself is null there is nothing to set.)
C15_ClearTimeReset ==
    /\ ch_pc \in {"loop", "quit"} =>
          input_available_clear_time = ch_clear_entry
    /\ ch_pc = "returned" =>
          IF ch_clear_entry.null
          THEN input_available_clear_time = ch_clear_entry
          ELSE IF ch_result > 0 /\ ch_status
          THEN input_available_clear_time = ClearTime(FALSE, 0)
          ELSE input_available_clear_time = ch_clear_entry

\* C15 witness: a wait with a non-null STATUS found the child terminated
\* and reset a timestamp that was not zero.
C15_Witness ==
    /\ ch_pc = "returned"
    /\ ch_result > 0 /\ ch_status
    /\ ch_clear_entry = ClearTime(FALSE, 1)
    /\ input_available_clear_time = ClearTime(FALSE, 0)

NextIO ==
    \/ \E fn \in IoFns, n \in 0..MaxNbyte : IoCall(fn, n)
    \/ \E out \in RwOutcomes(MaxNbyte) : emacs_intr_read(out)
    \/ \E out \in RwOutcomes(MaxNbyte) : emacs_full_write(out)
    \/ \E out \in OpenOutcomes : emacs_openat(out)
    \/ \E fn \in CloseFns \cup PlainFns : IoCall(fn, 0)
    \/ \E out \in CloseOutcomes : emacs_close(out)
    \/ \E fn \in PlainFns : \E out \in PlainOutcomes(fn) : PlainWrapper(out)
    \/ IoDone
    \/ RequestQuit
    \/ DeferSignal

InitIO ==
    /\ BtQuiet
    /\ OrdQuiet
    /\ SioQuiet
    /\ IoStart /\ noninteractive = FALSE
    /\ TtyQuiet /\ SigQuiet /\ TcQuiet /\ ChQuiet /\ DiscardQuiet
    /\ PureQuiet

SpecIO == InitIO /\ [][NextIO]_vars

\* The main thread makes the I/O calls and the waits for children one after
\* the other.
NextCalls == NextIO \/ NextChild

SpecCalls == InitChild /\ [][NextCalls]_vars

\* The bytes the successful calls of a history transferred.
RECURSIVE SumRets(_)
SumRets(h) ==
    IF h = <<>> THEN 0
    ELSE (IF h[1].ret >= 0 THEN h[1].ret ELSE 0) + SumRets(Tail(h))

AllOk(h) == \A i \in 1..Len(h) : h[i].ret >= 0

\* C1: retry transparency.  A wrapper that returns normally returns what it
\* would have returned had none of its underlying calls failed with EINTR:
\* emacs_read and emacs_open (and their variants) return the outcome of the
\* one call that did not fail with EINTR, with no error when it succeeded;
\* emacs_write (and its variants) returns the sum of the bytes its successful
\* writes took, which is NBYTE when no write failed with another error.
C1_RetryTransparency ==
    (io_pc = "returned" /\ io_fn \in IoFns) =>
        IF io_fn \in WriteFns
        THEN /\ io_result = SumRets(io_hist)
             /\ AllOk(io_hist) => io_result = io_arg
        ELSE /\ Len(io_hist) = 1
             /\ io_result = io_hist[1].ret
             /\ io_errno = io_hist[1].errno

\* C1 witness: emacs_write returned all of NBYTE although two of its writes
\* failed with EINTR, the request being longer than one write takes.
C1_Witness ==
    /\ io_pc = "returned" /\ io_fn = "emacs_write"
    /\ io_eintr >= 2
    /\ io_arg > MaxRwCount
    /\ io_result = io_arg

\* The bytes a sequence of pieces of the caller's buffer covers.
RECURSIVE SumLens(_)
SumLens(w) ==
    IF w = <<>> THEN 0 ELSE w[1].n + SumLens(Tail(w))

\* C17: emacs_write, emacs_write_sig and emacs_write_quit return NBYTE
\* unless an underlying write fails with an errno other than EINTR, and then
\* they return the bytes already written, fewer than NBYTE, with that errno.
\* Every write is asked for at most MAX_RW_COUNT bytes (and no more than
\* remain), and each write starts at the first byte not yet written: the
\* pieces written are a prefix of the caller's buffer, in order, with no
\* gap and no repeat.
C17_FullWrite ==
    io_fn \in WriteFns =>
        /\ io_req <= MaxRwCount
        /\ io_req <= io_arg
        /\ \A i \in 1..Len(io_wrote) :
              /\ io_wrote[i].at = SumLens(SubSeq(io_wrote, 1, i - 1))
              /\ io_wrote[i].n <= MaxRwCount
        /\ SumLens(io_wrote) = io_written
        /\ io_written + io_nbyte = io_arg
        /\ io_pc = "returned" =>
              IF AllOk(io_hist)
              THEN io_result = io_arg
              ELSE /\ io_result = io_written
                   /\ io_result < io_arg
                   /\ io_errno = io_hist[Len(io_hist)].errno
                   /\ io_errno # "EINTR"
                   /\ AllOk(SubSeq(io_hist, 1, Len(io_hist) - 1))

\* C17 witness: emacs_write_sig, asked for more than one write takes, had a
\* partial write (fewer bytes than it asked for), was interrupted, and then
\* met another error: it returned the count of the piece written.
C17_Witness ==
    /\ io_fn = "emacs_write_sig" /\ io_pc = "returned"
    /\ io_arg > MaxRwCount
    /\ io_eintr >= 1
    /\ Len(io_wrote) = 1 /\ io_wrote[1].n < MaxRwCount
    /\ io_result >= 1 /\ io_result < io_arg
    /\ io_errno = "EIO"

\* C18 as stated: emacs_read and emacs_read_quit cap the length they pass
\* to each underlying read at MAX_RW_COUNT, for every NBYTE.
C18_Original ==
    io_fn \in ReadFns => io_req <= MaxRwCount

\* C18, amended: emacs_read and emacs_read_quit pass the caller's NBYTE to
\* every underlying read as it is, so the length read is asked for is at
\* most MAX_RW_COUNT exactly when NBYTE is.
C18_ReadPassesNbyte ==
    (io_fn \in ReadFns /\ Len(io_hist) + io_eintr > 0) =>
        /\ io_req = io_arg
        /\ (io_req <= MaxRwCount) = (io_arg <= MaxRwCount)

\* C18 witness: emacs_read, called with NBYTE above MAX_RW_COUNT, has
\* retried an interrupted read and returned more than MAX_RW_COUNT bytes.
C18_Witness ==
    /\ io_fn = "emacs_read" /\ io_pc = "returned"
    /\ io_arg > MaxRwCount
    /\ io_eintr >= 1
    /\ io_result > MaxRwCount

\* The underlying calls a wrapper call has made, and the answer of the
\* only one when there was one.
IoCalls == Len(io_hist) + io_eintr
OnlyOutcome == IF io_eintr = 1 THEN Fail("EINTR") ELSE io_hist[1]

\* What a failed wrapper call looks like to its caller: a short count from
\* the write wrappers, a negative result from the others.
IoFailed == IF io_fn \in WriteFns THEN io_result < io_arg ELSE io_result < 0

NoQuitFns ==
    {"emacs_read", "emacs_write", "emacs_write_sig", "emacs_open_noquit"}
NoQuitWaits == {"child_status_changed", "sys_subshell"}

\* C20: maybe_quit is invoked only by the interruptible variants.
\* emacs_read, emacs_write, emacs_write_sig, emacs_open_noquit,
\* child_status_changed and the wait of sys_subshell never invoke it, and
\* so never leave by a quit, even while a quit is requested.  emacs_write
\* never processes pending signals.  When a write fails with EINTR,
\* emacs_write_sig processes the pending signals, if any, without a quit
\* check; emacs_write_quit invokes the quit check and then, unless the quit
\* takes it away, processes the pending signals.
C20_QuitOnlyWhenInterruptible ==
    /\ [](/\ io_fn \in NoQuitFns =>
               (io_quit_checks = 0 /\ io_pc # "quit")
          /\ ch_fn \in NoQuitWaits =>
               (ch_quit_checks = 0 /\ ch_pc # "quit")
          /\ io_fn = "emacs_write" => io_sig_runs = 0)
    /\ [][(io_fn = "emacs_write_sig" /\ io_eintr' = io_eintr + 1) =>
            /\ io_quit_checks' = io_quit_checks
            /\ io_sig_runs' =
                 io_sig_runs + (IF pending_signals THEN 1 ELSE 0)
            /\ ~pending_signals']_vars
    /\ [][(io_fn = "emacs_write_quit" /\ io_eintr' = io_eintr + 1) =>
            /\ io_quit_checks' = io_quit_checks + 1
            /\ IF io_pc' = "quit"
               THEN /\ quit_flag
                    /\ io_sig_runs' = io_sig_runs
                    /\ pending_signals' = pending_signals
               ELSE /\ ~quit_flag
                    /\ io_sig_runs' =
                         io_sig_runs + (IF pending_signals THEN 1 ELSE 0)
                    /\ ~pending_signals']_vars

\* C20 witness: while a quit was requested and signals were pending, a write
\* of emacs_write_sig failed with EINTR: it processed the pending signals,
\* checked for no quit, and went on to return all of NBYTE.
C20_Witness ==
    /\ io_fn = "emacs_write_sig" /\ io_pc = "returned"
    /\ io_eintr >= 1
    /\ quit_flag
    /\ io_sig_runs >= 1 /\ io_quit_checks = 0
    /\ io_result = io_arg /\ io_arg > 0

\* C21 as stated: emacs_set_tty returns 0 only after a read-back of the
\* terminal attributes equalled the requested settings (and returns -1 only
\* when a tcsetattr failed with an errno other than EINTR).
C21_Original ==
    (last.op # "none" /\ last.set.calls > 0) =>
        (last.set.ret = 0 => last.set.matched)

\* The snapshot OLD of device T with the changes C22 lists, bit by bit and
\* character by character; with IXANY_TOO, also IXANY cleared under flow
\* control.
ListedChanges(t, old, ixany_too) ==
    LET flow == ttys[t].flow_control
        meta == ttys[t].meta_key
        ctl == ttys[t].controlling
    IN [iflag |->
          {b \in IFlags :
             CASE b = "IGNBRK" -> TRUE
               [] b \in {"ICRNL", "INLCR", "ISTRIP"} -> FALSE
               [] b = "IXON" -> flow
               [] b = "IXANY" -> IF ixany_too /\ flow THEN FALSE
                                 ELSE b \in old.iflag
               [] OTHER -> b \in old.iflag},
        oflag |->
          {b \in OFlags :
             CASE b = "ONLCR" -> FALSE
               [] b \in TAB3 -> FALSE
               [] OTHER -> b \in old.oflag},
        cflag |->
          {b \in CFlags :
             CASE b \in CS8 -> (meta \/ b \in old.cflag)
               [] b = "PARENB" -> (~meta /\ b \in old.cflag)
               [] OTHER -> b \in old.cflag},
        lflag |->
          {b \in LFlags :
             CASE b \in {"ECHO", "ICANON", "IEXTEN"} -> FALSE
               [] b = "ISIG" -> TRUE
               [] OTHER -> b \in old.lflag},
        c_cc |->
          [c \in CcNames |->
             IF c = "VMIN" THEN 1
             ELSE IF c = "VTIME" THEN 0
             ELSE IF c = "VSTART" THEN (IF flow THEN 17 ELSE CDISABLE)
             ELSE IF c = "VSTOP" THEN (IF flow THEN 19 ELSE CDISABLE)
             ELSE IF c \in {"VINTR", "VQUIT"}
                  THEN (IF ctl THEN quit_char ELSE CDISABLE)
             ELSE IF c = "VERASE" THEN old.c_cc[c]
             ELSE CDISABLE]]

\* init_sys_modes has just applied a mode to device T, and the read-back
\* showed that the terminal took it.
JustApplied(t) ==
    /\ last.op = "init_sys_modes" /\ last.tty = t
    /\ last.acted /\ last.set.matched

\* C22 as stated: the mode init_sys_modes applies is the snapshot it just
\* saved with exactly the listed changes (IGNBRK, ISIG set; ICRNL, INLCR,
\* ISTRIP, ECHO, ICANON, IEXTEN, ONLCR, TAB3 cleared; IXON, VSTART, VSTOP by
\* flow_control; CS8, PARENB by meta_key; VMIN 1, VTIME 0; the editing
\* characters disabled; VINTR, VQUIT by controlling terminal).
C22_Original ==
    \A t \in Ttys :
        JustApplied(t) => termios[t] = ListedChanges(t, ttys[t].old_tty, FALSE)

\* C22, amended: as stated, and with one more change: IXANY is cleared when
\* flow_control is on.
C22_EditingMode ==
    \A t \in Ttys :
        JustApplied(t) => termios[t] = ListedChanges(t, ttys[t].old_tty, TRUE)

\* C22 witness: init_sys_modes applied the editing mode to the controlling
\* terminal with flow control and the meta key on, from a snapshot that had
\* IXANY, PARENB and ECHO set.
C22_Witness ==
    /\ JustApplied(1)
    /\ ttys[1].flow_control /\ ttys[1].meta_key /\ ttys[1].controlling
    /\ "IXANY" \in ttys[1].old_tty.iflag
    /\ "PARENB" \in ttys[1].old_tty.cflag
    /\ "ECHO" \in ttys[1].old_tty.lflag
    /\ "IXANY" \notin termios[1].iflag

C24_Original ==
    \A t \in Ttys :
        discards[t].did = "acted" =>
            /\ discards[t].same
            /\ discards[t].option = "TCSAFLUSH"
            /\ discards[t].ret = 0 => ~typeahead[t]

\* C25 as stated: sys_subshell ignores SIGINT, SIGQUIT, SIGTERM and SIGIO
\* before it forks, so that the parent ignores them from the moment the
\* child exists until the wait for it has ended.
C25_Original ==
    sub_pc \in {"forked", "saved"} =>
        \A s \in SubshellSigs : disp[s].handler = "SIG_IGN"

\* C25 as amended: sys_subshell forks first, with every disposition as it
\* was; the parent then saves the dispositions of SIGINT, SIGQUIT, SIGTERM
\* and SIGIO and ignores the four; they stay ignored for as long as it
\* waits; it puts the saved ones back only when the wait has returned, and
\* not at all when a signal handler's non-local exit ends the wait.
C25_IgnoredWhileWaiting ==
    [][/\ (sub_pc = "idle" /\ sub_pc' # "idle") =>
             (sub_pc' = "forked" /\ disp' = disp)
       /\ (sub_pc # "saved" /\ sub_pc' = "saved") =>
             /\ sub_pc = "forked"
             /\ saved_handlers' = [s \in SubshellSigs |-> disp[s]]
       /\ sub_pc' = "saved" =>
             \A s \in SubshellSigs : disp'[s].handler = "SIG_IGN"
       /\ (sub_pc = "saved" /\ sub_pc' # "saved") =>
             /\ sub_pc' = "idle"
             /\ IF frames[main_thread_id] # << >>
                THEN abandoned' /\ disp' = disp
                ELSE \A s \in SubshellSigs : disp'[s] = saved_handlers[s]]_vars

\* C25 witness: the parent waits for the subshell, ignoring SIGINT and
\* SIGTERM, whose saved dispositions are the fatal-signal action.
C25_Witness ==
    /\ sub_pc = "saved"
    /\ saved_handlers["SIGINT"] = process_fatal_action
    /\ saved_handlers["SIGTERM"] = process_fatal_action
    /\ disp["SIGINT"].handler = "SIG_IGN"
    /\ disp["SIGTERM"].handler = "SIG_IGN"

\* C26: when sys_subshell returns, the dispositions of SIGINT, SIGQUIT,
\* SIGTERM and SIGIO are those in force when it was called, also when the
\* wait for the child failed; it changes the disposition of no other signal
\* at any point; a failed fork raises an error with every disposition as it
\* was.  (Stated step by step: the call saves the four as they are, the
\* wait keeps the saved ones, the return puts them back.)
C26_DispositionsRestored ==
    [][/\ \A s \in Sigs \ SubshellSigs : disp'[s] = disp[s]
       /\ (ch_fn = "idle" /\ ch_fn' = "sys_subshell") =>
             IF ch_pc' = "loop"
             THEN saved_handlers' = [s \in SubshellSigs |-> disp[s]]
             ELSE disp' = disp
       /\ (ch_fn = "sys_subshell" /\ ch_fn' = "sys_subshell") =>
             saved_handlers' = saved_handlers
       /\ (ch_fn = "sys_subshell" /\ ch_pc = "error") => disp' = disp
       /\ (ch_fn = "sys_subshell" /\ ch_pc = "returned"
             /\ ch_fn' = "idle") =>
             \A s \in SubshellSigs : disp'[s] = saved_handlers[s]]_vars

\* C26 witness: the wait of sys_subshell failed with ECHILD while SIGINT,
\* saved with the fatal-signal action, and SIGIO, saved as SIG_DFL, are
\* ignored.
C26_Witness ==
    /\ ch_fn = "sys_subshell" /\ ch_pc = "returned"
    /\ ~ch_wait_ok /\ ch_errno = "ECHILD"
    /\ saved_handlers["SIGINT"] = process_fatal_action
    /\ saved_handlers["SIGIO"] = SIG_DFL
    /\ disp["SIGINT"].handler = "SIG_IGN"
    /\ disp["SIGIO"].handler = "SIG_IGN"

\* The handler of the SIGFPE that the main thread has taken makes its next
\* step (no further signal is taken on top of it).
MainFpeStep ==
    /\ frames[main_thread_id] # << >>
    /\ Top(main_thread_id).sig = "SIGFPE"
    /\ frames'[main_thread_id] # frames[main_thread_id]
    /\ Len(frames'[main_thread_id]) <= Len(frames[main_thread_id])

\* The handler leaves for the command loop with an arith-error and an empty
\* signal mask, and the fatal path is not entered.
RaisesArithError ==
    /\ frames'[main_thread_id] = << >>
    /\ sigmask'[main_thread_id] = {}
    /\ [thread |-> main_thread_id, cause |-> "arith-error"] \in jumps'
    /\ proc' = proc
    /\ body_ran_on' = body_ran_on

\* SIGFPE is registered with deliver_arith_signal on a host without IEEE
\* floating point and with the thread-fatal action on an IEEE host.
FpeRegistered ==
    sig_inited' =>
        installed'["SIGFPE"] =
            IF platform'.ieee
            THEN thread_fatal_action
            ELSE emacs_sigaction_init("deliver_arith_signal")

\* C27 as stated: on a host without IEEE floating point every SIGFPE taken
\* on the main thread empties the signal mask, then raises arith-error, and
\* never enters the fatal path; on an IEEE host SIGFPE has the thread-fatal
\* action.
C27_Original ==
    [][/\ (~platform.ieee /\ MainFpeStep) => RaisesArithError
       /\ FpeRegistered]_vars

\* C27 as amended: the same, for a SIGFPE that no other thread has taken
\* before; once deliver_thread_signal has handled a SIGFPE on another thread
\* it has given SIGFPE the process-fatal action and sent the signal on to
\* the main thread, which takes it into the fatal path.
C27_ArithErrorOnMain ==
    [][/\ (~platform.ieee /\ MainFpeStep /\ "SIGFPE" \notin replaced) =>
             RaisesArithError
       /\ (~platform.ieee /\ MainFpeStep /\ ~RaisesArithError) =>
             /\ Top(main_thread_id).fn = "deliver_fatal_signal"
             /\ "SIGFPE" \in replaced
       /\ FpeRegistered]_vars

\* C27 witness: on a host without IEEE floating point the main thread,
\* having taken a SIGFPE, is back in its command loop after an arith-error
\* with no signal blocked, and Emacs runs on.
C27_Witness ==
    /\ ~platform.ieee
    /\ [thread |-> main_thread_id, cause |-> "arith-error"] \in jumps
    /\ frames[main_thread_id] = << >>
    /\ sigmask[main_thread_id] = {}
    /\ proc = "running"
    /\ main_thread_id \notin body_ran_on

\* The size of the known stack, the distance of the fault address beyond
\* its top in the direction in which the stack grows, and the size of the
\* guard area.
StackExtent(a) == IF a.bot < a.top THEN a.top - a.bot ELSE a.bot - a.top
BeyondTop(a) ==
    IF a.bot < a.top THEN a.siginfo.addr - a.top ELSE a.top - a.siginfo.addr
GuardSize(a) == StackExtent(a) \div 256
InsideStack(a) ==
    \/ a.bot < a.siginfo.addr /\ a.siginfo.addr < a.top
    \/ a.top < a.siginfo.addr /\ a.siginfo.addr < a.bot

\* C28: stack_overflow returns true exactly when recovery is enabled, the
\* siginfo and the fault address are non-null, and the distance d of the
\* fault address beyond the known stack top, in the direction of growth,
\* satisfies 0 <= d < extent >> 8.  The address at distance extent >> 8 is
\* no overflow, the top itself is one whenever extent >= 256, and no address
\* strictly inside the stack is one; for stacks growing up and down.
C28_StackOverflow ==
    pure_fn = "stack_overflow" =>
        LET a == pure_args
            usable == a.recovery /\ ~a.siginfo.null /\ a.siginfo.addr # 0
        IN /\ pure_result.ret =
                (/\ usable
                 /\ 0 <= BeyondTop(a)
                 /\ BeyondTop(a) < GuardSize(a))
           /\ ~a.siginfo.null =>
                /\ BeyondTop(a) = GuardSize(a) => ~pure_result.ret
                /\ (usable /\ BeyondTop(a) = 0 /\ StackExtent(a) >= 256) =>
                      pure_result.ret
                /\ InsideStack(a) => ~pure_result.ret

\* C28 witness: on a stack of 512 bytes that grows up, the fault at the last
\* byte of the guard area, one byte past the top, is an overflow.
C28_Witness ==
    /\ pure_fn = "stack_overflow"
    /\ pure_args.bot < pure_args.top
    /\ StackExtent(pure_args) = 512
    /\ pure_args.recovery /\ ~pure_args.siginfo.null
    /\ BeyondTop(pure_args) = GuardSize(pure_args) - 1
    /\ pure_result.ret

\* The category of a disposition, by its handler.
Category(a) ==
    IF a.handler = "deliver_fatal_signal" THEN "fatal-process"
    ELSE IF a.handler = "deliver_fatal_thread_signal" THEN "fatal-thread"
    ELSE IF a.handler = "deliver_arith_signal" THEN "arithmetic"
    ELSE IF a.handler = "deliver_danger_signal" THEN "danger"
    ELSE IF a.handler = "SIG_IGN" THEN "ignored"
    ELSE IF a.handler = "handle_sigsegv" THEN "stack-overflow"
    ELSE IF a.handler = "deliver_user_signal" THEN "user"
    ELSE "default"

FiveCategories ==
    {"fatal-process", "fatal-thread", "arithmetic", "danger", "ignored"}

\* The signals init_signals has a call for, on the host at hand.
ClassifiedSigs ==
    (DefinedSigs \ {"SIGIO", "SIGALRM", "SIGCHLD", "SIGWINCH"})

\* C29 as stated: every signal for which init_signals installs a
\* disposition is in one of the categories fatal-process, fatal-thread,
\* arithmetic, danger and ignored, and no signal the host defines that
\* belongs to one of them is left unregistered.
C29_Original ==
    sig_inited =>
        /\ \A s \in init_signals_registers(inherited) :
               Category(installed[s]) \in FiveCategories
        /\ ClassifiedSigs \subseteq init_signals_registers(inherited)

\* C29 as amended: every signal for which init_signals installs a
\* disposition is in one of those five categories or, SIGSEGV where
\* init_sigsegv succeeds, has the stack-overflow handler or, SIGUSR1 and
\* SIGUSR2, is a user signal; the signals left unregistered are, in batch
\* mode only, SIGPIPE and those of SIGHUP and SIGINT that were inherited as
\* ignored, and they keep the disposition they had.
C29_Classification ==
    sig_inited =>
        LET registered == init_signals_registers(inherited)
        IN /\ \A s \in registered :
                 /\ Category(installed[s]) \in
                       FiveCategories \cup {"stack-overflow", "user"}
                 /\ Category(installed[s]) = "stack-overflow" <=>
                       (s = "SIGSEGV" /\ platform.sigsegv)
                 /\ Category(installed[s]) = "user" <=>
                       s \in {"SIGUSR1", "SIGUSR2"}
                 /\ Category(installed[s]) = "danger" <=> s = "SIGDANGER"
                 /\ Category(installed[s]) = "arithmetic" <=>
                       (s = "SIGFPE" /\ ~platform.ieee)
                 /\ Category(installed[s]) = "ignored" <=>
                       s \in {"SIGPIPE", "SIGPROF"}
           /\ \A s \in ClassifiedSigs \ registered :
                 /\ noninteractive
                 /\ \/ s = "SIGPIPE"
                    \/ /\ s \in {"SIGHUP", "SIGINT"}
                       /\ inherited[s].handler = "SIG_IGN"
           /\ \A s \in Sigs \ registered : installed[s] = inherited[s]

\* C29 witness: init_signals has returned in batch mode on the host where
\* init_sigsegv succeeds, with SIGHUP left ignored as inherited, SIGSEGV
\* given the stack-overflow handler and SIGUSR1 made a user signal.
C29_Witness ==
    /\ sig_inited /\ noninteractive /\ platform.sigsegv
    /\ inherited["SIGHUP"].handler = "SIG_IGN"
    /\ installed["SIGHUP"].handler = "SIG_IGN"
    /\ "SIGHUP" \notin init_signals_registers(inherited)
    /\ Category(installed["SIGSEGV"]) = "stack-overflow"
    /\ Category(installed["SIGUSR1"]) = "user"
    /\ Category(installed["SIGXCPU"]) = "fatal-process"

\* The signals every handler blocks: alarm, child status, window size, and
\* memory pressure and profiling where the host has them.
AlwaysBlocked ==
    {"SIGALRM", "SIGCHLD", "SIGWINCH"}
    \cup (IF platform.sigdanger THEN {"SIGDANGER"} ELSE {})
    \cup (IF platform.profiler THEN {"SIGPROF"} ELSE {})

KeyboardSigs == {"SIGINT", "SIGQUIT", "SIGIO"}

FillsMask(a) ==
    a.handler \in {"deliver_fatal_signal", "deliver_fatal_thread_signal",
                   "handle_sigsegv"}

\* C30: every handler init_signals installs blocks, while it runs, at least
\* SIGALRM, SIGCHLD and SIGWINCH (and SIGDANGER and SIGPROF where
\* available); the masks built by emacs_sigaction_init hold those signals
\* and hold SIGINT, SIGQUIT and SIGIO exactly when Emacs is interactive; the
\* process-fatal, thread-fatal and SIGSEGV actions block every signal.
C30_HandlerMasks ==
    sig_inited =>
        /\ \A s \in Sigs :
              installed[s].handler \notin {"SIG_DFL", "SIG_IGN"} =>
                 /\ AlwaysBlocked \subseteq installed[s].mask
                 /\ IF FillsMask(installed[s])
                    THEN installed[s].mask = DefinedSigs
                    ELSE /\ installed[s] =
                              emacs_sigaction_init(installed[s].handler)
                         /\ installed[s].mask \ KeyboardSigs = AlwaysBlocked
                         /\ IF noninteractive
                            THEN installed[s].mask \cap KeyboardSigs = {}
                            ELSE KeyboardSigs \subseteq installed[s].mask
        /\ \A th \in Threads :
              AtPc(th, "entry") => AlwaysBlocked \subseteq sigmask[th]

\* C30 witness: in batch mode, on the host with SIGDANGER and without IEEE
\* floating point, the handler of SIGFPE, built by emacs_sigaction_init, has
\* just been entered on the main thread with SIGDANGER blocked and SIGINT
\* not, while SIGQUIT has the process-fatal action.
C30_Witness ==
    /\ sig_inited /\ noninteractive /\ platform.sigdanger
    /\ installed["SIGFPE"].handler = "deliver_arith_signal"
    /\ installed["SIGQUIT"] = process_fatal_action
    /\ AtPc(main_thread_id, "entry")
    /\ Top(main_thread_id).sig = "SIGFPE"
    /\ Top(main_thread_id).fn = "deliver_arith_signal"
    /\ "SIGDANGER" \in sigmask[main_thread_id]
    /\ "SIGINT" \notin sigmask[main_thread_id]

\* C31 as stated: the saved snapshot of a device keeps the attributes the
\* terminal had before Emacs first put it into editing mode, also when
\* init_sys_modes is called a second time without a reset_sys_modes in
\* between: the second call, its tcgetattr succeeding, leaves a snapshot
\* that holds the original attributes as it is.
C31_Original ==
    [][\A t \in Ttys :
          (/\ last'.op = "init_sys_modes" /\ last'.tty = t /\ last'.acted
           /\ last'.get_ok
           /\ seq[t].phase = "init" /\ seq[t].ok
           /\ ttys[t].old_set /\ ttys[t].old_tty = pre_init[t]) =>
              ttys'[t].old_tty = ttys[t].old_tty]_vars

\* C32 as stated: with inherited_pgroup # 0 and the foreground group narrowed
\* to Emacs's own process group, a reset_sys_modes on one device, while another device is
\* still in editing mode, leaves Emacs in its own process group and the
\* foreground group of the terminal as it was.
C32_Original ==
    (/\ inherited_pgroup # 0
     /\ last.op = "reset_sys_modes" /\ last.acted
     /\ last.pre_pgrp = MyPid /\ last.pre_fg = MyPid
     /\ \E u \in Ttys \ {last.tty} : seq[u].phase = "init") =>
        /\ emacs_pgrp = MyPid
        /\ tty_fg = last.pre_fg

\* C33 as stated: narrow_foreground_group and widen_foreground_group are
\* called with the descriptor of the controlling terminal only, so an
\* init_sys_modes or reset_sys_modes on another device makes no setpgid and
\* no tcsetpgrp call with that device's descriptor.
C33_Original ==
    (/\ last.op \in {"init_sys_modes", "reset_sys_modes"} /\ last.acted
     /\ ~ttys[last.tty].controlling) =>
        /\ last.setpgid = "none"
        /\ last.tcsetpgrp = "none"

\* The steps of the handlers running on the threads other than the main
\* thread.
OtherThreadSteps ==
    \E th \in Threads \ {main_thread_id} :
        \/ deliver_process_signal(th)
        \/ ForwardAndReturn(th)
        \/ SigsegvHandler(th)
        \/ deliver_thread_signal(th)
        \/ ThreadSigaction(th)
        \/ ThreadKill(th)

\* C34 as stated: a fatal signal forwarded to the main thread with
\* pthread_kill, by the process-fatal or by the thread-fatal path, is
\* eventually followed by handle_fatal_signal on the main thread, when the
\* main thread is scheduled fairly (and the other threads are as well).
C34_Original ==
    WF_vars(OtherThreadSteps) =>
        ((main_pending # {}) ~> (main_thread_id \in body_ran_on))

\* C34, amended: a fatal signal forwarded to the main thread is eventually
\* followed by handle_fatal_signal on the main thread, unless the signal is
\* still pending while sys_subshell has it ignored, in which case the kernel
\* discards it.
C34_ForwardedHandled ==
    \A s \in ArrivingSigs :
        (s \in main_pending) ~>
            \/ main_thread_id \in body_ran_on
            \/ s \in main_pending /\ disp[s].handler = "SIG_IGN"

C34_Witness ==
    /\ main_thread_id \in body_ran_on
    /\ \E f, g \in forwards :
         /\ f.by = "deliver_process_signal"
         /\ g.by = "deliver_thread_signal"
         /\ f.from # main_thread_id /\ g.from # main_thread_id

(***************************************************************************)
(* Fatal signals on two subsidiary threads: the shared backtrace buffer    *)
(***************************************************************************)

BtFrame ==
    UNCHANGED <<ioVars, noninteractive, ttyVars, sigVars, tcVars, chVars,
                dcVars, pureVars, sioVars,
                ordVars>>

\* A subsidiary thread whose stack is DEPTH frames deep takes a thread-fatal
\* signal and enters deliver_thread_signal.
BtTakeSignal(th, depth) ==
    /\ bt_pc[th] = "running"
    /\ bt_pc' = [bt_pc EXCEPT ![th] = "backtrace"]
    /\ bt_depth' = [bt_depth EXCEPT ![th] = depth]
    /\ UNCHANGED <<thread_backtrace_buffer, thread_backtrace_npointers,
                   bt_slot, bt_killed, bt_printed>>
    /\ BtFrame

\* What backtrace (buffer, BACKTRACE_LIMIT_MAX) returns on a stack of DEPTH
\* frames.
BacktraceCount(depth) == Min(depth, BACKTRACE_LIMIT_MAX)

\* backtrace stores the next return address of thread TH in the static
\* buffer; nothing serialises the stores of two threads.
BacktraceStore(th) ==
    /\ bt_pc[th] = "backtrace"
    /\ bt_slot[th] < BacktraceCount(bt_depth[th])
    /\ thread_backtrace_buffer' =
         [thread_backtrace_buffer EXCEPT
            ![bt_slot[th] + 1] = [thread |-> th, frame |-> bt_slot[th] + 1]]
    /\ bt_slot' = [bt_slot EXCEPT ![th] = @ + 1]
    /\ UNCHANGED <<thread_backtrace_npointers, bt_pc, bt_depth, bt_killed,
                   bt_printed>>
    /\ BtFrame

\* backtrace has returned: thread_backtrace_npointers is assigned.
BacktraceReturn(th) ==
    /\ bt_pc[th] = "backtrace"
    /\ bt_slot[th] = BacktraceCount(bt_depth[th])
    /\ thread_backtrace_npointers' = bt_slot[th]
    /\ bt_pc' = [bt_pc EXCEPT ![th] = "sigaction"]
    /\ UNCHANGED <<thread_backtrace_buffer, bt_depth, bt_slot, bt_killed,
                   bt_printed>>
    /\ BtFrame

\* sigaction, pthread_kill (main_thread_id, sig), then sigsuspend for ever.
BtForward(th) ==
    /\ bt_pc[th] = "sigaction"
    /\ bt_killed' = bt_killed \cup {th}
    /\ bt_pc' = [bt_pc EXCEPT ![th] = "sigsuspend"]
    /\ UNCHANGED <<thread_backtrace_buffer, thread_backtrace_npointers,
                   bt_depth, bt_slot, bt_printed>>
    /\ BtFrame

\* What emacs_backtrace prints when a thread backtrace is recorded.
emacs_backtrace(buffer, npointers) ==
    IF npointers # 0 THEN SubSeq(buffer, 1, npointers) ELSE << >>

\* The main thread takes a forwarded signal and, in handle_fatal_signal,
\* prints the backtrace.
MainBacktrace ==
    /\ bt_killed # {}
    /\ bt_printed = << >>
    /\ bt_printed' = emacs_backtrace(thread_backtrace_buffer,
                                     thread_backtrace_npointers)
    /\ UNCHANGED <<thread_backtrace_buffer, thread_backtrace_npointers,
                   bt_pc, bt_depth, bt_slot, bt_killed>>
    /\ BtFrame

InitBacktrace ==
    /\ noninteractive = FALSE
    /\ BtQuiet
    /\ OrdQuiet
    /\ SioQuiet
    /\ IoStart
    /\ TtyQuiet
    /\ SigQuiet
    /\ TcQuiet
    /\ ChQuiet
    /\ DiscardQuiet
    /\ PureQuiet

NextBacktrace ==
    \/ \E th \in SubsidiaryThreads, depth \in 1..(BACKTRACE_LIMIT_MAX + 1) :
          BtTakeSignal(th, depth)
    \/ \E th \in SubsidiaryThreads : BacktraceStore(th)
    \/ \E th \in SubsidiaryThreads : BacktraceReturn(th)
    \/ \E th \in SubsidiaryThreads : BtForward(th)
    \/ MainBacktrace

SpecBacktrace == InitBacktrace /\ [][NextBacktrace]_vars

\* The complete backtrace of thread TH, as backtrace records it.
CompleteBacktrace(th) ==
    [i \in 1..BacktraceCount(bt_depth[th]) |-> [thread |-> th, frame |-> i]]

\* C35 as stated: when two subsidiary threads take thread-fatal signals
\* concurrently, what the main thread prints is the complete backtrace of
\* exactly one of them, never a mix.
C35_Original ==
    (bt_printed # << >> /\ \A th \in SubsidiaryThreads : bt_depth[th] > 0) =>
        \E th \in SubsidiaryThreads : bt_printed = CompleteBacktrace(th)

\* C36: on a platform without IEEE floating point a SIGFPE taken on a
\* thread other than the main thread never raises arith-error, on that thread
\* or on the main thread: the receiving thread saves its backtrace, installs
\* process_fatal_action for SIGFPE, forwards the signal to the main thread
\* and stays in sigsuspend, so that the forwarded SIGFPE finds the
\* process-fatal handler and, the main thread being scheduled fairly,
\* handle_fatal_signal runs there.
C36_FpeOnThreadIsFatal ==
    /\ [](~platform.ieee =>
            /\ \A j \in jumps :
                 j.cause = "arith-error" => j.thread = main_thread_id
            /\ "SIGFPE" \in main_pending =>
                 disp["SIGFPE"] = process_fatal_action
            /\ \A th \in Threads \ {main_thread_id} :
                 \A i \in DOMAIN frames[th] :
                    LET f == frames[th][i] IN
                    f.fn = "deliver_arith_signal" =>
                      /\ f.pc \in {"entry", "backtrace", "sigaction",
                                   "sigsuspend"}
                      /\ f.pc = "sigaction" =>
                           /\ f.log = <<"backtrace", "sigaction">>
                           /\ disp["SIGFPE"] = process_fatal_action
                      /\ f.pc = "sigsuspend" =>
                           /\ f.log = <<"backtrace", "sigaction",
                                        "pthread_kill">>
                           /\ disp["SIGFPE"] = process_fatal_action)
    /\ (~platform.ieee /\ "SIGFPE" \in main_pending) ~>
           (main_thread_id \in body_ran_on)

C36_Witness ==
    /\ ~platform.ieee
    /\ main_thread_id \in body_ran_on
    /\ \E i \in DOMAIN frames["t1"] :
         /\ frames["t1"][i].fn = "deliver_arith_signal"
         /\ frames["t1"][i].pc = "sigsuspend"
    /\ \E i \in DOMAIN frames[main_thread_id] :
         /\ frames[main_thread_id][i].sig = "SIGFPE"
         /\ frames[main_thread_id][i].fn = "deliver_fatal_signal"
         /\ frames[main_thread_id][i].pc = "body"

(***************************************************************************)
(* emacs_set_tty applied to drawn attributes and tcsetattr behaviours      *)
(***************************************************************************)

\* tcsetattr fails with EINTR any number of times up to the loop's limit and
\* from then on sets everything, leaves c_cflag alone, or fails otherwise.
SetTtyBehaviours ==
    {[eintr |-> n, then |-> y] :
        n \in 0..SetTtyTries, y \in {"OK", "REFUSE", "ERR"}}

EmacsSetTtyCall ==
    /\ pure_fn = "none"
    /\ pure_fn' = "emacs_set_tty"
    /\ pure_result' =
         SetTtyLoop(0, pure_args.cur, pure_args.req, pure_args.beh)
    /\ UNCHANGED pure_args
    /\ UNCHANGED <<ioVars, noninteractive, ttyVars, sigVars, tcVars, chVars,
                   dcVars, btVars, sioVars,
                ordVars>>

InitSetTty ==
    /\ noninteractive = FALSE
    /\ \E cur \in InitialModes, req \in InitialModes,
          beh \in SetTtyBehaviours :
          PureStart([cur |-> cur, req |-> req, beh |-> beh])
    /\ BtQuiet
    /\ OrdQuiet
    /\ SioQuiet
    /\ IoStart
    /\ TtyQuiet
    /\ SigQuiet
    /\ TcQuiet
    /\ ChQuiet
    /\ DiscardQuiet

NextSetTty == EmacsSetTtyCall

SpecSetTty == InitSetTty /\ [][NextSetTty]_vars

\* The outcomes of the tcsetattr calls one emacs_set_tty call made.
AttemptOutcomes ==
    {TcsetattrOutcome(pure_args.beh, i) : i \in 0..(pure_result.calls - 1)}

SioFrame ==
    UNCHANGED <<ioVars, noninteractive, ttyVars, sigVars, tcVars, chVars,
                dcVars, pureVars, btVars,
                ordVars>>

\* The signals request_sigio unblocks and unrequest_sigio blocks.
SigioSet == {"SIGWINCH", "SIGIO"}

\* init_sigio (fd), called on thread TH.
init_sigio(th, fd) ==
    /\ old_fcntl_flags' =
         [old_fcntl_flags EXCEPT ![fd] = fd_flags[fd] \ {"FASYNC"}]
    /\ fd_flags' =
         [fd_flags EXCEPT ![fd] = old_fcntl_flags'[fd] \cup {"FASYNC"}]
    /\ interrupts_deferred' = 0
    /\ sio_last' = [op |-> "init_sigio", thread |-> th]
    /\ UNCHANGED sio_mask
    /\ SioFrame

\* reset_sigio (fd), called on thread TH.
reset_sigio(th, fd) ==
    /\ fd_flags' = [fd_flags EXCEPT ![fd] = old_fcntl_flags[fd]]
    /\ sio_last' = [op |-> "reset_sigio", thread |-> th]
    /\ UNCHANGED <<interrupts_deferred, sio_mask, old_fcntl_flags>>
    /\ SioFrame

\* request_sigio (), called on thread TH.
request_sigio(th) ==
    /\ IF noninteractive
       THEN UNCHANGED <<sio_mask, interrupts_deferred>>
       ELSE /\ sio_mask' = [sio_mask EXCEPT ![th] = @ \ SigioSet]
            /\ interrupts_deferred' = 0
    /\ sio_last' = [op |-> "request_sigio", thread |-> th]
    /\ UNCHANGED <<fd_flags, old_fcntl_flags>>
    /\ SioFrame

\* unrequest_sigio (), called on thread TH.
unrequest_sigio(th) ==
    /\ IF noninteractive
       THEN UNCHANGED <<sio_mask, interrupts_deferred>>
       ELSE /\ sio_mask' = [sio_mask EXCEPT ![th] = @ \cup SigioSet]
            /\ interrupts_deferred' = 1
    /\ sio_last' = [op |-> "unrequest_sigio", thread |-> th]
    /\ UNCHANGED <<fd_flags, old_fcntl_flags>>
    /\ SioFrame

\* The file status flags a descriptor may have when Emacs gets it.
StartFlags == {{}, {"O_NONBLOCK"}, {"FASYNC"}}

InitSigio ==
    /\ noninteractive \in BOOLEAN
    /\ \E flags \in [SioFds -> StartFlags] : SioStart({}, flags)
    /\ BtQuiet
    /\ OrdQuiet
    /\ IoStart
    /\ TtyQuiet
    /\ SigQuiet
    /\ TcQuiet
    /\ ChQuiet
    /\ DiscardQuiet
    /\ PureQuiet

NextSigio ==
    \/ \E th \in Threads, fd \in SioFds : init_sigio(th, fd)
    \/ \E th \in Threads, fd \in SioFds : reset_sigio(th, fd)
    \/ \E th \in Threads : request_sigio(th)
    \/ \E th \in Threads : unrequest_sigio(th)

SpecSigio == InitSigio /\ [][NextSigio]_vars

\* C38 as stated: in an interactive Emacs, after any sequence of
\* request_sigio, unrequest_sigio and init_sigio calls, interrupts_deferred
\* is 1 exactly when SIGIO and SIGWINCH are blocked in the calling thread's
\* mask.
C38_Original ==
    (/\ ~noninteractive
     /\ sio_last.op \in {"request_sigio", "unrequest_sigio", "init_sigio"}) =>
        (interrupts_deferred = 1 <=> SigioSet \subseteq sio_mask[sio_last.thread])

(***************************************************************************)
(* init_sys_modes and reset_sys_modes, call by call                        *)
(***************************************************************************)

\* The device the two functions are applied to.
OrdTty == 1

\* The calls of init_sys_modes and of reset_sys_modes that touch the
\* foreground group, the terminal's attributes or its output queue, in the
\* order of the source.
init_sys_modes_calls ==
    <<"narrow_foreground_group", "emacs_get_tty", "emacs_set_tty">>

reset_sys_modes_calls_Mutant ==
    <<"widen_foreground_group", "tcdrain", "emacs_set_tty">>
reset_sys_modes_calls ==
    <<"tcdrain", "emacs_set_tty", "widen_foreground_group">>

OrdCalls ==
    IF ord_fn = "init_sys_modes" THEN init_sys_modes_calls
    ELSE reset_sys_modes_calls

\* The function is at its call of NAME.
OrdAt(name) ==
    /\ ord_step \in DOMAIN OrdCalls
    /\ OrdCalls[ord_step] = name

\* The call is made: it is logged with what it found, and the function
\* goes on to its next call, or returns after its last one.
OrdAdvance(name) ==
    /\ ord_log' = Append(ord_log, [call |-> name, pgrp |-> emacs_pgrp,
                                   attrs |-> termios[OrdTty]])
    /\ IF ord_step < Len(OrdCalls)
       THEN ord_step' = ord_step + 1 /\ ord_done' = FALSE
       ELSE ord_step' = 0 /\ ord_done' = TRUE
    /\ UNCHANGED ord_fn

OrdFrame ==
    /\ UNCHANGED <<ioVars, noninteractive, sigVars, tcVars, chVars, dcVars,
                   pureVars, btVars, sioVars>>
    /\ UNCHANGED <<fg_initted, inherited_pgroup, pre_init, seq, last,
                   narrowed, narrow_open, unmatched>>

\* FN is entered: it returns at once when Emacs is not interactive, when the
\* device is suspended and, for reset_sys_modes, when the terminal was never
\* initialised.  reset_sys_modes writes to the terminal and flushes before
\* its tcdrain.
OrdEnter(fn) ==
    /\ fg_initted
    /\ ord_step = 0
    /\ ord_fn' = fn
    /\ ord_log' = << >>
    /\ ord_done' = FALSE
    /\ IF \/ noninteractive
          \/ Suspended(OrdTty)
          \/ fn = "reset_sys_modes" /\ ~ttys[OrdTty].term_initted
       THEN ord_step' = 0 /\ UNCHANGED out_pending
       ELSE /\ ord_step' = 1
            /\ out_pending' = (out_pending \/ fn = "reset_sys_modes")
    /\ UNCHANGED <<ttys, termios, emacs_pgrp, tty_fg>>
    /\ OrdFrame

OrdNarrow(sp_ok, tc_ok) ==
    /\ OrdAt("narrow_foreground_group")
    /\ LET nar == narrow_foreground_group(OrdTty, sp_ok, tc_ok)
       IN emacs_pgrp' = nar.pgrp /\ tty_fg' = nar.fg
    /\ OrdAdvance("narrow_foreground_group")
    /\ UNCHANGED <<ttys, termios, out_pending>>
    /\ OrdFrame

OrdGetTty(get_ok) ==
    /\ OrdAt("emacs_get_tty")
    /\ ttys' = [ttys EXCEPT
                  ![OrdTty].old_set = TRUE,
                  ![OrdTty].old_tty =
                      SavedSnapshot(OrdTty, emacs_get_tty(OrdTty, get_ok))]
    /\ OrdAdvance("emacs_get_tty")
    /\ UNCHANGED <<termios, emacs_pgrp, tty_fg, out_pending>>
    /\ OrdFrame

\* init_sys_modes sets the editing mode; reset_sys_modes sets the saved
\* attributes back when there are any.
OrdSetTty(beh) ==
    /\ OrdAt("emacs_set_tty")
    /\ IF ord_fn = "init_sys_modes"
       THEN /\ termios' =
                 [termios EXCEPT ![OrdTty] =
                    emacs_set_tty(OrdTty,
                                  EditingMode(OrdTty, ttys[OrdTty].old_tty),
                                  beh).attrs]
            /\ ttys' = [ttys EXCEPT ![OrdTty].term_initted = TRUE]
            /\ OrdAdvance("emacs_set_tty")
       ELSE IF ttys[OrdTty].old_set
            THEN /\ termios' =
                      [termios EXCEPT ![OrdTty] =
                         emacs_set_tty(OrdTty, RestoredMode(OrdTty),
                                       beh).attrs]
                 /\ OrdAdvance("emacs_set_tty")
                 /\ UNCHANGED ttys
            ELSE /\ ord_step' = IF ord_step < Len(OrdCalls)
                                THEN ord_step + 1 ELSE 0
                 /\ ord_done' = ~(ord_step < Len(OrdCalls))
                 /\ UNCHANGED <<ttys, termios, ord_log, ord_fn>>
    /\ UNCHANGED <<emacs_pgrp, tty_fg, out_pending>>
    /\ OrdFrame

\* "while (tcdrain (...) != 0 && errno == EINTR) continue;".
OrdTcdrain(outcome) ==
    /\ OrdAt("tcdrain")
    /\ IF outcome = "EINTR"
       THEN /\ Len(ord_log) < MaxCalls
            /\ ord_log' = Append(ord_log,
                                 [call |-> "tcdrain", pgrp |-> emacs_pgrp,
                                  attrs |-> termios[OrdTty]])
            /\ UNCHANGED <<ord_fn, ord_step, ord_done, out_pending>>
       ELSE /\ OrdAdvance("tcdrain")
            /\ out_pending' = (out_pending /\ outcome # "OK")
    /\ UNCHANGED <<ttys, termios, emacs_pgrp, tty_fg>>
    /\ OrdFrame

OrdWiden(sp_ok, tc_ok) ==
    /\ OrdAt("widen_foreground_group")
    /\ LET wid == widen_foreground_group(OrdTty, sp_ok, tc_ok)
       IN emacs_pgrp' = wid.pgrp /\ tty_fg' = wid.fg
    /\ OrdAdvance("widen_foreground_group")
    /\ UNCHANGED <<ttys, termios, out_pending>>
    /\ OrdFrame

InitOrder ==
    /\ noninteractive \in BOOLEAN
    /\ \E start \in {MyPid, ShellPgrp}, o1 \in BOOLEAN :
          TtyStart(start,
                   [t \in Ttys |-> CookedMode],
                   [t \in Ttys |->
                      IF t = OrdTty THEN NewTty(o1, FALSE, FALSE, TRUE)
                      ELSE NewTty(FALSE, FALSE, FALSE, FALSE)])
    /\ BtQuiet
    /\ OrdQuiet
    /\ SioQuiet
    /\ IoStart
    /\ SigQuiet
    /\ TcQuiet
    /\ ChQuiet
    /\ DiscardQuiet
    /\ PureQuiet

NextOrder ==
    \/ init_foreground_group
    \/ \E fn \in {"init_sys_modes", "reset_sys_modes"} : OrdEnter(fn)
    \/ \E sp_ok \in SetpgidOutcomes :
         \E tc_ok \in TcsetpgrpOutcomes(sp_ok) : OrdNarrow(sp_ok, tc_ok)
    \/ \E get_ok \in BOOLEAN : OrdGetTty(get_ok)
    \/ \E beh \in PgrpBehaviours : OrdSetTty(beh)
    \/ \E outcome \in {"OK", "EINTR", "ERR"} : OrdTcdrain(outcome)
    \/ \E sp_ok \in SetpgidOutcomes :
         \E tc_ok \in TcsetpgrpOutcomes(sp_ok) : OrdWiden(sp_ok, tc_ok)

SpecOrder == InitOrder /\ [][NextOrder]_vars

\* In the log of the function entered last, every call B comes after a
\* call A.
OrdAfter(a, b) ==
    \A j \in DOMAIN ord_log :
        ord_log[j].call = b =>
            \E i \in 1..(j - 1) : ord_log[i].call = a

OrdNever(a, b) ==
    \A i, j \in DOMAIN ord_log :
        (ord_log[i].call = a /\ ord_log[j].call = b) => i < j

OrdMade(name) == \E i \in DOMAIN ord_log : ord_log[i].call = name

\* C39: init_sys_modes narrows the foreground group before it reads the
\* attributes it saves and before it changes them; reset_sys_modes waits for
\* the output with tcdrain, then sets the saved attributes back, and only
\* then widens the foreground group, so that the attributes are read and
\* written while Emacs is in the narrowed group.
C39_NarrowFirstWidenLast ==
    /\ ord_fn = "init_sys_modes" =>
          /\ OrdAfter("narrow_foreground_group", "emacs_get_tty")
          /\ OrdAfter("emacs_get_tty", "emacs_set_tty")
          /\ OrdNever("narrow_foreground_group", "emacs_get_tty")
          /\ OrdNever("emacs_get_tty", "emacs_set_tty")
          /\ \A i, j \in DOMAIN ord_log :
                (1 < i /\ i < j) => ord_log[j].pgrp = ord_log[i].pgrp
          /\ ord_done =>
                /\ OrdMade("emacs_set_tty")
                /\ emacs_pgrp = ord_log[Len(ord_log)].pgrp
    /\ ord_fn = "reset_sys_modes" =>
          /\ OrdAfter("tcdrain", "emacs_set_tty")
          /\ OrdAfter("tcdrain", "widen_foreground_group")
          /\ OrdNever("tcdrain", "emacs_set_tty")
          /\ OrdNever("emacs_set_tty", "widen_foreground_group")
          /\ OrdNever("tcdrain", "widen_foreground_group")
          /\ \A i, j \in DOMAIN ord_log : ord_log[j].pgrp = ord_log[i].pgrp
          /\ ord_done =>
                /\ ord_log[Len(ord_log)].call = "widen_foreground_group"
                /\ ttys[OrdTty].old_set => OrdMade("emacs_set_tty")
                /\ termios[OrdTty] = ord_log[Len(ord_log)].attrs

\* reset_sys_modes ran to its end after an init_sys_modes that narrowed: it
\* waited for the output through an interrupted tcdrain, restored the
\* attributes and widened.
C39_Witness ==
    /\ ord_fn = "reset_sys_modes"
    /\ ord_done
    /\ inherited_pgroup # 0
    /\ emacs_pgrp = inherited_pgroup
    /\ ord_log[1].pgrp = MyPid
    /\ Len(ord_log) = 4
    /\ OrdMade("emacs_set_tty")
    /\ termios[OrdTty] = CookedMode
    /\ ~out_pending

\* C40 as stated: every iteration of emacs_write's loop whose write does not
\* fail with EINTR either ends the loop or strictly decreases the bytes still
\* to be written, so that emacs_write terminates when only finitely many
\* writes fail with EINTR.
C40_Original ==
    [][(/\ io_fn = "emacs_write" /\ io_pc = "loop" /\ io_nbyte > 0
        /\ Len(io_hist') = Len(io_hist) + 1
        /\ io_eintr' = io_eintr) =>
            \/ io_pc' = "returned"
            \/ io_nbyte' < io_nbyte]_vars

====
